---- MODULE Spec2Model ----
(***************************************************************************)
(* Identity mapping of aws-iam-authenticator: the document codec           *)
(* (ParseMap / EncodeMap), the static FileMapper, the live MapStore with   *)
(* its watcher goroutine and concurrent readers, and the optimistic update *)
(* client.                                                                 *)
(*                                                                         *)
(* Strings are sequences of characters.  The character "role/" stands for  *)
(* the literal prefix arn:aws:iam::<account>:role/ and "user/" for         *)
(* arn:aws:iam::<account>:user/ ; a string that does not start with one of *)
(* them has no ARN shape.  The empty sequence is Go's "".                  *)
(***************************************************************************)
EXTENDS Integers, Sequences, FiniteSets, TLC

\* ------------------------------------------------------------------ bounds

\* Longest record list of a document field or of a static configuration.
MaxLen == 2

\* Longest role list of a configuration with repeated keys.
MaxRepeat == 3

\* Changes of the external document and other events of the watch stream.
MaxEnvSteps == 3

\* Watch requests that fail (bounds the failure counter).
MaxFailures == 2

\* Goroutines of the authentication front end that call the live mapper.
NumReaders == 1

\* Goroutine slots for startLoadConfigMap.
NumWatchers == 2

\* Processes that call AddRole / AddUser at the same time.
NumClients == 2

\* Calls of AddRole / AddUser one process makes.
MaxCalls == 2

\* Writes to the ConfigMap by other parties, while the update client runs.
MaxEdits == 5

\* ----------------------------------------------------------------- strings

Empty == <<>>

\* strings.ToLower on one character.
LowerChar(c) == IF c = "A" THEN "a" ELSE IF c = "B" THEN "b" ELSE c

\* strings.ToLower
ToLower(s) == [i \in 1..Len(s) |-> LowerChar(s[i])]

\* arnlike's parse: the string starts with "arn:" and has all its sections.
ArnParses(s) == s /= Empty /\ Head(s) \in {"role/", "user/"}

\* Glob match of the name part: '*' is any run of characters, '?' any one.
RECURSIVE Glob(_, _)
Glob(p, s) ==
    IF p = Empty THEN s = Empty
    ELSE IF Head(p) = "*"
         THEN Glob(Tail(p), s) \/ (s /= Empty /\ Glob(p, Tail(s)))
         ELSE /\ s /= Empty
              /\ (Head(p) = "?" \/ Head(p) = Head(s))
              /\ Glob(Tail(p), Tail(s))

\* arnlike.ArnLike(arn, pattern): "err" when either side does not parse,
\* otherwise "yes"/"no" by matching section by section.
ArnLike(arn, pattern) ==
    IF ~ArnParses(arn) \/ ~ArnParses(pattern) THEN "err"
    ELSE IF Head(arn) = Head(pattern) /\ Glob(Tail(pattern), Tail(arn))
         THEN "yes" ELSE "no"

\* The shapes "arn:*:iam:*:*:role/*" and "arn:*:iam:*:*:user/*".
RoleShape == <<"role/", "*">>
UserShape == <<"user/", "*">>

\* ----------------------------------------------------------------- records

RoleRec(a, l, n, g) == [RoleARN |-> a, RoleARNLike |-> l, Username |-> n, Groups |-> g]
UserRec(a, l, n, g) == [UserARN |-> a, UserARNLike |-> l, Username |-> n, Groups |-> g]

\* The zero values config.RoleMapping{} and config.UserMapping{}.
NoRole == RoleRec(Empty, Empty, "", <<>>)
NoUser == UserRec(Empty, Empty, "", <<>>)

\* A document field: missing, text that is no YAML, a list that decodes with
\* a type error (recs is what json.Unmarshal filled in), or a decoded list.
Absent == [kind |-> "absent", recs |-> <<>>]
BadYaml == [kind |-> "badyaml", recs |-> <<>>]
TypeErr(recs) == [kind |-> "typeerr", recs |-> recs]
ListOf(recs) == [kind |-> "list", recs |-> recs]

\* ConfigMap.Data
DataOf(u, r, a) == [mapUsers |-> u, mapRoles |-> r, mapAccounts |-> a]
EmptyData == DataOf(Absent, Absent, Absent)

\* Fault variant of Validate: the shape of the pattern is not looked at.
RoleValidateAnyShape(m) ==
    IF m.RoleARN = Empty /\ m.RoleARNLike = Empty THEN "neither"
    ELSE IF m.RoleARN /= Empty /\ m.RoleARNLike /= Empty THEN "both"
    ELSE "nil"

\* (*RoleMapping).Validate: "nil" or the invariant that failed.
RoleValidate(m) ==
    IF m.RoleARN = Empty /\ m.RoleARNLike = Empty THEN "neither"
    ELSE IF m.RoleARN /= Empty /\ m.RoleARNLike /= Empty THEN "both"
    ELSE IF m.RoleARNLike /= Empty /\ ArnLike(m.RoleARNLike, RoleShape) = "err" THEN "arnlike"
    ELSE IF m.RoleARNLike /= Empty /\ ArnLike(m.RoleARNLike, RoleShape) = "no" THEN "shape"
    ELSE "nil"

\* (*UserMapping).Validate
UserValidate(m) ==
    IF m.UserARN = Empty /\ m.UserARNLike = Empty THEN "neither"
    ELSE IF m.UserARN /= Empty /\ m.UserARNLike /= Empty THEN "both"
    ELSE IF m.UserARNLike /= Empty /\ ArnLike(m.UserARNLike, UserShape) = "err" THEN "arnlike"
    ELSE IF m.UserARNLike /= Empty /\ ArnLike(m.UserARNLike, UserShape) = "no" THEN "shape"
    ELSE "nil"

\* ------------------------------------------------------------------- codec

\* One parse error: its cause and the record it is about (NoRole/NoUser for
\* an error of the whole field).
ParseErr(cause, rec) == [cause |-> cause, rec |-> rec]

\* The switch of ParseMap over one user record: what it adds to
\* (userMappings, userArnLikeMappings, errs).
ParseUserRec(m) ==
    CASE m.UserARN = Empty /\ m.UserARNLike = Empty ->
            [exact |-> <<>>, like |-> <<>>, errs |-> <<ParseErr("neither", m)>>]
      [] m.UserARN /= Empty /\ m.UserARNLike /= Empty ->
            [exact |-> <<>>, like |-> <<>>, errs |-> <<ParseErr("both", m)>>]
      [] m.UserARN /= Empty /\ m.UserARNLike = Empty ->
            [exact |-> <<m>>, like |-> <<>>, errs |-> <<>>]
      [] OTHER ->
            LET ok == ArnLike(m.UserARNLike, UserShape)
            IN  [exact |-> <<>>, like |-> <<m>>,
                 errs |-> IF ok = "err" THEN <<ParseErr("arnlike", m)>>
                          ELSE IF ok = "no" THEN <<ParseErr("shape", m)>>
                          ELSE <<>>]

\* The switch of ParseMap over one role record.
ParseRoleRec(m) ==
    CASE m.RoleARN = Empty /\ m.RoleARNLike = Empty ->
            [exact |-> <<>>, like |-> <<>>, errs |-> <<ParseErr("neither", m)>>]
      [] m.RoleARN /= Empty /\ m.RoleARNLike /= Empty ->
            [exact |-> <<>>, like |-> <<>>, errs |-> <<ParseErr("both", m)>>]
      [] m.RoleARN /= Empty /\ m.RoleARNLike = Empty ->
            [exact |-> <<m>>, like |-> <<>>, errs |-> <<>>]
      [] OTHER ->
            LET ok == ArnLike(m.RoleARNLike, RoleShape)
            IN  [exact |-> <<>>, like |-> <<m>>,
                 errs |-> IF ok = "err" THEN <<ParseErr("arnlike", m)>>
                          ELSE IF ok = "no" THEN <<ParseErr("shape", m)>>
                          ELSE <<>>]

Join3(x, y) == [exact |-> x.exact \o y.exact, like |-> x.like \o y.like,
                errs |-> x.errs \o y.errs]

\* for _, userMapping := range rawUserMappings { switch ... }
RECURSIVE ParseUserList(_)
ParseUserList(recs) ==
    IF recs = <<>> THEN [exact |-> <<>>, like |-> <<>>, errs |-> <<>>]
    ELSE Join3(ParseUserRec(Head(recs)), ParseUserList(Tail(recs)))

\* Fault variant of the record loop: it stops at the first record that
\* reports an error.
RECURSIVE ParseRoleListFailFast(_)
ParseRoleListFailFast(recs) ==
    IF recs = <<>> THEN [exact |-> <<>>, like |-> <<>>, errs |-> <<>>]
    ELSE LET h == ParseRoleRec(Head(recs))
         IN  IF h.errs /= <<>> THEN h
             ELSE Join3(h, ParseRoleListFailFast(Tail(recs)))

\* for _, roleMapping := range rawRoleMappings { switch ... }
RECURSIVE ParseRoleList(_)
ParseRoleList(recs) ==
    IF recs = <<>> THEN [exact |-> <<>>, like |-> <<>>, errs |-> <<>>]
    ELSE Join3(ParseRoleRec(Head(recs)), ParseRoleList(Tail(recs)))

\* The mapUsers block of ParseMap.
ParseUsers(f) ==
    CASE f.kind = "absent" -> [exact |-> <<>>, like |-> <<>>, errs |-> <<>>]
      [] f.kind = "badyaml" ->
            [exact |-> <<>>, like |-> <<>>, errs |-> <<ParseErr("yaml", NoUser)>>]
      [] f.kind = "typeerr" ->
            Join3([exact |-> <<>>, like |-> <<>>, errs |-> <<ParseErr("json", NoUser)>>],
                  ParseUserList(f.recs))
      [] OTHER -> ParseUserList(f.recs)

\* The mapRoles block of ParseMap.
ParseRoles(f) ==
    CASE f.kind = "absent" -> [exact |-> <<>>, like |-> <<>>, errs |-> <<>>]
      [] f.kind = "badyaml" ->
            [exact |-> <<>>, like |-> <<>>, errs |-> <<ParseErr("yaml", NoRole)>>]
      [] f.kind = "typeerr" ->
            Join3([exact |-> <<>>, like |-> <<>>, errs |-> <<ParseErr("json", NoRole)>>],
                  ParseRoleList(f.recs))
      [] OTHER -> ParseRoleList(f.recs)

\* The mapAccounts block of ParseMap.
ParseAccounts(f) ==
    CASE f.kind = "absent" -> [accounts |-> <<>>, errs |-> <<>>]
      [] f.kind \in {"badyaml", "typeerr"} ->
            [accounts |-> f.recs, errs |-> <<ParseErr("yaml", NoUser)>>]
      [] OTHER -> [accounts |-> f.recs, errs |-> <<>>]

\* Fault variant of ParseMap: a field that reports an error ends the parse,
\* the fields after it are not read.
ParseMapStopsAtError(m) ==
    LET u == ParseUsers(m.mapUsers)
        r == IF u.errs = <<>> THEN ParseRoles(m.mapRoles) ELSE ParseRoles(Absent)
        a == IF u.errs \o r.errs = <<>> THEN ParseAccounts(m.mapAccounts)
             ELSE ParseAccounts(Absent)
    IN  [userMappings |-> u.exact,
         userArnLikeMappings |-> u.like,
         roleMappings |-> r.exact,
         roleArnLikeMappings |-> r.like,
         awsAccounts |-> a.accounts,
         errs |-> u.errs \o r.errs \o a.errs]

\* ParseMap(m): the five lists and the collected errors; err is non-nil
\* exactly when errs is not empty.
ParseMap(m) ==
    LET u == ParseUsers(m.mapUsers)
        r == ParseRoles(m.mapRoles)
        a == ParseAccounts(m.mapAccounts)
    IN  [userMappings |-> u.exact,
         userArnLikeMappings |-> u.like,
         roleMappings |-> r.exact,
         roleArnLikeMappings |-> r.like,
         awsAccounts |-> a.accounts,
         errs |-> u.errs \o r.errs \o a.errs]

\* Fault variant of EncodeMap: the account list is not written.
EncodeMapDropsAccounts(userMappings, roleMappings, awsAccounts) ==
    DataOf(IF Len(userMappings) > 0 THEN ListOf(userMappings) ELSE Absent,
           IF Len(roleMappings) > 0 THEN ListOf(roleMappings) ELSE Absent,
           Absent)

\* EncodeMap: a field is written only for a non-empty list.
EncodeMap(userMappings, roleMappings, awsAccounts) ==
    DataOf(IF Len(userMappings) > 0 THEN ListOf(userMappings) ELSE Absent,
           IF Len(roleMappings) > 0 THEN ListOf(roleMappings) ELSE Absent,
           IF Len(awsAccounts) > 0 THEN ListOf(awsAccounts) ELSE Absent)

\* ------------------------------------------------------------------ tables

\* A Go map: a function on its set of keys.
EmptyMap == [k \in {} |-> NoRole]

\* Fault variant of the assignment to a map element: a key that is there is
\* left alone.
PutIfAbsent(tbl, k, v) ==
    IF k \in DOMAIN tbl THEN tbl
    ELSE [x \in (DOMAIN tbl) \cup {k} |-> IF x = k THEN v ELSE tbl[x]]

\* m[k] = v
Put(tbl, k, v) == [x \in (DOMAIN tbl) \cup {k} |-> IF x = k THEN v ELSE tbl[x]]
Values(tbl) == {tbl[k] : k \in DOMAIN tbl}

\* for _, user := range userMappings { ms.users[strings.ToLower(user.UserARN)] = user }
RECURSIVE PutUsers(_, _)
PutUsers(tbl, recs) ==
    IF recs = <<>> THEN tbl
    ELSE PutUsers(Put(tbl, ToLower(Head(recs).UserARN), Head(recs)), Tail(recs))

\* for ... { ms.userArnLikes[userArnLike.UserARNLike] = userArnLike }
RECURSIVE PutUserArnLikes(_, _)
PutUserArnLikes(tbl, recs) ==
    IF recs = <<>> THEN tbl
    ELSE PutUserArnLikes(Put(tbl, Head(recs).UserARNLike, Head(recs)), Tail(recs))

\* Fault variant of the role loop of saveMap: the key is the ARN as configured.
RECURSIVE PutRolesRawKey(_, _)
PutRolesRawKey(tbl, recs) ==
    IF recs = <<>> THEN tbl
    ELSE PutRolesRawKey(Put(tbl, Head(recs).RoleARN, Head(recs)), Tail(recs))

\* for _, role := range roleMappings { ms.roles[strings.ToLower(role.RoleARN)] = role }
RECURSIVE PutRoles(_, _)
PutRoles(tbl, recs) ==
    IF recs = <<>> THEN tbl
    ELSE PutRoles(Put(tbl, ToLower(Head(recs).RoleARN), Head(recs)), Tail(recs))

\* for ... { ms.roleArnLikes[roleArnLike.RoleARNLike] = roleArnLike }
RECURSIVE PutRoleArnLikes(_, _)
PutRoleArnLikes(tbl, recs) ==
    IF recs = <<>> THEN tbl
    ELSE PutRoleArnLikes(Put(tbl, Head(recs).RoleARNLike, Head(recs)), Tail(recs))

\* for _, awsAccount := range awsAccounts { ms.awsAccounts[awsAccount] = nil }
PutAccounts(set, accts) == set \cup {accts[i] : i \in 1..Len(accts)}

\* The fields of MapStore that hold mappings.  MapStore{} of New() has nil
\* maps, which read as empty ones.
EmptyStore == [users |-> EmptyMap, userArnLikes |-> EmptyMap, roles |-> EmptyMap,
               roleArnLikes |-> EmptyMap, awsAccounts |-> {}]

\* ----------------------------------------------------------------- lookups

Found(rec) == [rec |-> rec, err |-> "nil"]
Miss(rec, err) == [rec |-> rec, err |-> err]

\* MapStore.UserMapping under the read lock.
UserMapping(s, arn) ==
    IF arn \in DOMAIN s.users THEN Found(s.users[arn]) ELSE Miss(NoUser, "UserNotFound")

\* MapStore.RoleMapping under the read lock.
RoleMapping(s, arn) ==
    IF arn \in DOMAIN s.roles THEN Found(s.roles[arn]) ELSE Miss(NoRole, "RoleNotFound")

\* MapStore.UserArnLikeMapping: the outcomes the range over the Go map can
\* produce.  Entries are visited in an unspecified order and the first one
\* that matches or whose evaluation fails ends the loop.
UserArnLikeMapping(s, arn) ==
    LET hits == {Found(e) : e \in {x \in Values(s.userArnLikes) :
                                      ArnLike(arn, x.UserARNLike) = "yes"}}
        errs == {Miss(NoUser, "arnlike") : e \in {x \in Values(s.userArnLikes) :
                                      ArnLike(arn, x.UserARNLike) = "err"}}
    IN  IF hits \cup errs = {} THEN {Miss(NoUser, "UserARNLikeNotMatched")}
        ELSE hits \cup errs

\* Fault variant of RoleArnLikeMapping: a miss is reported with the error of
\* the exact lookup.
RoleArnLikeMappingSharedMiss(s, arn) ==
    LET hits == {Found(e) : e \in {x \in Values(s.roleArnLikes) :
                                      ArnLike(arn, x.RoleARNLike) = "yes"}}
    IN  IF hits = {} THEN {Miss(NoRole, "RoleNotFound")} ELSE hits

\* MapStore.RoleArnLikeMapping, likewise.
RoleArnLikeMapping(s, arn) ==
    LET hits == {Found(e) : e \in {x \in Values(s.roleArnLikes) :
                                      ArnLike(arn, x.RoleARNLike) = "yes"}}
        errs == {Miss(NoRole, "arnlike") : e \in {x \in Values(s.roleArnLikes) :
                                      ArnLike(arn, x.RoleARNLike) = "err"}}
    IN  IF hits \cup errs = {} THEN {Miss(NoRole, "RoleARNLikeNotMatched")}
        ELSE hits \cup errs

\* Fault variant of AWSAccount: any id passes once the set has a member.
AWSAccountAnyId(s, id) == s.awsAccounts /= {}

\* MapStore.AWSAccount
AWSAccount(s, id) == id \in s.awsAccounts

\* What Map returns: &config.IdentityMapping{...}, nil  or  nil, err.
Identity(arn, rec) ==
    [IdentityARN |-> arn, Username |-> rec.Username, Groups |-> rec.Groups, err |-> "nil"]
MapError(err) == [IdentityARN |-> Empty, Username |-> "", Groups |-> <<>>, err |-> err]
ErrNotMapped == MapError("ErrNotMapped")

\* ------------------------------------------------------------ static mapper

\* arn.Canonicalize: a string without ARN shape is an error, otherwise the
\* canonical lower-case form.
Canonicalize(s) ==
    IF ArnParses(s) THEN [arn |-> ToLower(s), err |-> "nil"]
    ELSE [arn |-> Empty, err |-> "canonicalize"]

\* config.Config: the fields NewFileMapper reads.
ConfigOf(r, u, a) == [RoleMappings |-> r, UserMappings |-> u, AutoMappedAWSAccounts |-> a]

\* &FileMapper{...} with empty maps, and the (nil, err) return.
NewMapper == [err |-> "nil", lowercaseRoleMap |-> EmptyMap, roleArnLikeMap |-> EmptyMap,
              lowercaseUserMap |-> EmptyMap, userArnLikeMap |-> EmptyMap, accountMap |-> {}]
NilMapper(err) == [NewMapper EXCEPT !.err = err]

\* Fault variant of the role loop: an invalid entry is skipped and the loop
\* goes on.
RECURSIVE LoadRolesBestEffort(_, _)
LoadRolesBestEffort(fm, recs) ==
    IF recs = <<>> THEN fm
    ELSE LET m == Head(recs) IN
         IF RoleValidate(m) /= "nil" \/ ~ArnParses(m.RoleARN \o m.RoleARNLike)
         THEN LoadRolesBestEffort(fm, Tail(recs))
         ELSE IF m.RoleARN /= Empty
         THEN LoadRolesBestEffort([fm EXCEPT !.lowercaseRoleMap =
                                      Put(@, ToLower(m.RoleARN), m)], Tail(recs))
         ELSE LoadRolesBestEffort([fm EXCEPT !.roleArnLikeMap =
                                      Put(@, m.RoleARNLike, m)], Tail(recs))

\* Fault variant of the role loop: an exact entry is stored under its ARN as
\* written.
RECURSIVE LoadRolesRawKey(_, _)
LoadRolesRawKey(fm, recs) ==
    IF recs = <<>> THEN fm
    ELSE LET m == Head(recs) IN
         CASE m.RoleARN = Empty /\ m.RoleARNLike = Empty -> NilMapper("neither")
           [] m.RoleARN /= Empty /\ m.RoleARNLike /= Empty -> NilMapper("both")
           [] m.RoleARN /= Empty /\ m.RoleARNLike = Empty ->
                IF Canonicalize(m.RoleARN).err /= "nil"
                THEN NilMapper(Canonicalize(m.RoleARN).err)
                ELSE LoadRolesRawKey([fm EXCEPT !.lowercaseRoleMap = Put(@, m.RoleARN, m)],
                                     Tail(recs))
           [] OTHER ->
                LET ok == ArnLike(m.RoleARNLike, RoleShape)
                IN  IF ok = "err" THEN NilMapper("arnlike")
                    ELSE IF ok = "no" THEN NilMapper("shape")
                    ELSE LoadRolesRawKey([fm EXCEPT !.roleArnLikeMap =
                                             Put(@, m.RoleARNLike, m)], Tail(recs))

\* for _, m := range cfg.RoleMappings { switch ... }: the first invalid entry
\* ends the construction.
RECURSIVE LoadRoles(_, _)
LoadRoles(fm, recs) ==
    IF recs = <<>> THEN fm
    ELSE LET m == Head(recs) IN
         CASE m.RoleARN = Empty /\ m.RoleARNLike = Empty -> NilMapper("neither")
           [] m.RoleARN /= Empty /\ m.RoleARNLike /= Empty -> NilMapper("both")
           [] m.RoleARN /= Empty /\ m.RoleARNLike = Empty ->
                LET c == Canonicalize(ToLower(m.RoleARN))
                IN  IF c.err /= "nil" THEN NilMapper(c.err)
                    ELSE LoadRoles([fm EXCEPT !.lowercaseRoleMap = Put(@, c.arn, m)],
                                   Tail(recs))
           [] OTHER ->
                LET ok == ArnLike(m.RoleARNLike, RoleShape)
                IN  IF ok = "err" THEN NilMapper("arnlike")
                    ELSE IF ok = "no" THEN NilMapper("shape")
                    ELSE LoadRoles([fm EXCEPT !.roleArnLikeMap = Put(@, m.RoleARNLike, m)],
                                   Tail(recs))

\* for _, m := range cfg.UserMappings { switch ... }
RECURSIVE LoadUsers(_, _)
LoadUsers(fm, recs) ==
    IF recs = <<>> THEN fm
    ELSE LET m == Head(recs) IN
         CASE m.UserARN = Empty /\ m.UserARNLike = Empty -> NilMapper("neither")
           [] m.UserARN /= Empty /\ m.UserARNLike /= Empty -> NilMapper("both")
           [] m.UserARN /= Empty /\ m.UserARNLike = Empty ->
                LET c == Canonicalize(ToLower(m.UserARN))
                IN  IF c.err /= "nil" THEN NilMapper(c.err)
                    ELSE LoadUsers([fm EXCEPT !.lowercaseUserMap = Put(@, c.arn, m)],
                                   Tail(recs))
           [] OTHER ->
                LET ok == ArnLike(m.UserARNLike, UserShape)
                IN  IF ok = "err" THEN NilMapper("arnlike")
                    ELSE IF ok = "no" THEN NilMapper("shape")
                    ELSE LoadUsers([fm EXCEPT !.userArnLikeMap = Put(@, m.UserARNLike, m)],
                                   Tail(recs))

\* NewFileMapper(cfg)
NewFileMapper(c) ==
    LET afterRoles == LoadRoles(NewMapper, c.RoleMappings) IN
    IF afterRoles.err /= "nil" THEN afterRoles
    ELSE LET afterUsers == LoadUsers(afterRoles, c.UserMappings) IN
         IF afterUsers.err /= "nil" THEN afterUsers
         ELSE [afterUsers EXCEPT !.accountMap = PutAccounts(@, c.AutoMappedAWSAccounts)]

\* The two pattern loops of FileMapper.Map: the outcomes the range over the
\* Go map can produce; {} when no entry matches and none fails.
FileRolePatterns(fm, arn) ==
    {Identity(arn, e) : e \in {x \in Values(fm.roleArnLikeMap) :
                                 ArnLike(arn, x.RoleARNLike) = "yes"}}
    \cup {MapError("arnlike") : e \in {x \in Values(fm.roleArnLikeMap) :
                                 ArnLike(arn, x.RoleARNLike) = "err"}}
FileUserPatterns(fm, arn) ==
    {Identity(arn, e) : e \in {x \in Values(fm.userArnLikeMap) :
                                 ArnLike(arn, x.UserARNLike) = "yes"}}
    \cup {MapError("arnlike") : e \in {x \in Values(fm.userArnLikeMap) :
                                 ArnLike(arn, x.UserARNLike) = "err"}}

\* Fault variant of FileMapper.Map: the pattern loops run before the exact
\* lookups.
FileMapPatternsFirst(fm, canonicalARN) ==
    LET arn == ToLower(canonicalARN) IN
    IF FileRolePatterns(fm, arn) /= {} THEN FileRolePatterns(fm, arn)
    ELSE IF FileUserPatterns(fm, arn) /= {} THEN FileUserPatterns(fm, arn)
    ELSE IF arn \in DOMAIN fm.lowercaseRoleMap
         THEN {Identity(arn, fm.lowercaseRoleMap[arn])}
    ELSE IF arn \in DOMAIN fm.lowercaseUserMap
         THEN {Identity(arn, fm.lowercaseUserMap[arn])}
    ELSE {ErrNotMapped}

\* Fault variant of FileMapper.Map: the argument is looked up as passed.
FileMapCaseSensitive(fm, canonicalARN) ==
    LET arn == canonicalARN IN
    IF arn \in DOMAIN fm.lowercaseRoleMap THEN {Identity(arn, fm.lowercaseRoleMap[arn])}
    ELSE IF arn \in DOMAIN fm.lowercaseUserMap
         THEN {Identity(arn, fm.lowercaseUserMap[arn])}
    ELSE IF FileRolePatterns(fm, arn) /= {} THEN FileRolePatterns(fm, arn)
    ELSE IF FileUserPatterns(fm, arn) /= {} THEN FileUserPatterns(fm, arn)
    ELSE {ErrNotMapped}

\* FileMapper.Map(canonicalARN): the set of results it can return.
FileMap(fm, canonicalARN) ==
    LET arn == ToLower(canonicalARN) IN
    IF arn \in DOMAIN fm.lowercaseRoleMap THEN {Identity(arn, fm.lowercaseRoleMap[arn])}
    ELSE IF arn \in DOMAIN fm.lowercaseUserMap
         THEN {Identity(arn, fm.lowercaseUserMap[arn])}
    ELSE IF FileRolePatterns(fm, arn) /= {} THEN FileRolePatterns(fm, arn)
    ELSE IF FileUserPatterns(fm, arn) /= {} THEN FileUserPatterns(fm, arn)
    ELSE {ErrNotMapped}

\* FileMapper.IsAccountAllowed
FileIsAccountAllowed(fm, id) == id \in fm.accountMap

\* ------------------------------------------------------------- live mapper

\* The exclusive side of sync.RWMutex: Lock() first takes the writers' mutex
\* and announces itself (writer /= 0), then waits for the active readers to
\* leave (held); a reader that arrives after the announcement waits.
\* Fault variant of RLock: it does not wait for a writer.
RLockAlways(mu) == TRUE

\* Fault variant of Lock: its second half waits for the writers' mutex,
\* which its first half holds.
LockReadyUnowned(mu) == mu.readers = 0 /\ mu.writer = 0

FreeMutex == [writer |-> 0, held |-> FALSE, readers |-> 0]
RLockReady(mu) == mu.writer = 0
LockReady(mu) == mu.readers = 0

\* A watch.Event: its type, and for Added/Modified the object's name and Data.
Ev(type, name, data) == [type |-> type, name |-> name, data |-> data]
NoEvent == Ev("none", "", EmptyData)

\* The arguments of saveMap: the five lists.
ArgsOf(p) == [userMappings |-> p.userMappings,
              userArnLikeMappings |-> p.userArnLikeMappings,
              roleMappings |-> p.roleMappings,
              roleArnLikeMappings |-> p.roleArnLikeMappings,
              awsAccounts |-> p.awsAccounts]
EmptyArgs == [userMappings |-> <<>>, userArnLikeMappings |-> <<>>, roleMappings |-> <<>>,
              roleArnLikeMappings |-> <<>>, awsAccounts |-> <<>>]

\* Fault variant of the switch: a Deleted event leaves the store alone.
HandleEventKeepOnDelete(ev) ==
    IF ev.type \in {"Added", "Modified"} /\ ev.name = "aws-auth"
    THEN [save |-> TRUE, args |-> ArgsOf(ParseMap(ev.data))]
    ELSE [save |-> FALSE, args |-> EmptyArgs]

\* Fault variant of the switch: the name of the object is not looked at.
HandleEventAnyName(ev) ==
    CASE ev.type = "Deleted" -> [save |-> TRUE, args |-> EmptyArgs]
      [] ev.type \in {"Added", "Modified"} ->
            [save |-> TRUE, args |-> ArgsOf(ParseMap(ev.data))]
      [] OTHER -> [save |-> FALSE, args |-> EmptyArgs]

\* switch r.Type of startLoadConfigMap: whether saveMap is called, and with
\* which lists.
HandleEvent(ev) ==
    CASE ev.type = "Error" -> [save |-> FALSE, args |-> EmptyArgs]
      [] ev.type = "Deleted" -> [save |-> TRUE, args |-> EmptyArgs]
      [] ev.type \in {"Added", "Modified"} ->
            IF ev.name /= "aws-auth" THEN [save |-> FALSE, args |-> EmptyArgs]
            ELSE [save |-> TRUE, args |-> ArgsOf(ParseMap(ev.data))]
      [] OTHER -> [save |-> FALSE, args |-> EmptyArgs]

\* Fault variant of the counter: a failed Watch request is not counted.
IncSkipped(n) == n

\* ms.metrics.ConfigMapWatchFailures.Inc()
Inc(n) == n + 1

\* Fault variant of the failure path: the goroutine returns after the sleep.
AfterSleepReturns == "stopped"

\* time.Sleep(5 * time.Second); continue: the for loop goes round to select.
AfterSleep == "select"

\* Fault variant of the end of the range loop: the goroutine returns.
RangeEndReturns == "stopped"

\* The range loop ends on the closed channel, the for loop goes round to
\* select.
RangeEnd == "select"

\* Fault variant of the five make() statements: the old tables are kept.
SaveKeep(s) == s

\* The statements of saveMap between Lock and Unlock.
SaveClear(s) == EmptyStore
SaveUsers(s, a) == [s EXCEPT !.users = PutUsers(@, a.userMappings)]
SaveUserArnLikes(s, a) == [s EXCEPT !.userArnLikes = PutUserArnLikes(@, a.userArnLikeMappings)]
SaveRoles(s, a) == [s EXCEPT !.roles = PutRoles(@, a.roleMappings)]
SaveRoleArnLikes(s, a) == [s EXCEPT !.roleArnLikes = PutRoleArnLikes(@, a.roleArnLikeMappings)]
SaveAccounts(s, a) == [s EXCEPT !.awsAccounts = PutAccounts(@, a.awsAccounts)]

\* Fault variant of the order: the role patterns come before the exact users.
NextLookupPatternsEarly(k) ==
    CASE k = "role" -> "roleArnLike"
      [] k = "roleArnLike" -> "user"
      [] k = "user" -> "userArnLike"
      [] OTHER -> "none"

\* The order in which ConfigMapMapper.Map calls the four lookups.
FirstLookup == "role"
NextLookup(k) ==
    CASE k = "role" -> "user"
      [] k = "user" -> "roleArnLike"
      [] k = "roleArnLike" -> "userArnLike"
      [] OTHER -> "none"

\* One lookup of Map on the store s: the outcomes it can have.
Lookup(k, s, arn) ==
    CASE k = "role" -> {RoleMapping(s, arn)}
      [] k = "user" -> {UserMapping(s, arn)}
      [] k = "roleArnLike" -> RoleArnLikeMapping(s, arn)
      [] OTHER -> UserArnLikeMapping(s, arn)

\* ConfigMapMapper.Map from lookup k on, with every lookup made on the one
\* store s: the set of results.
RECURSIVE MapFrom(_, _, _)
MapFrom(k, s, arn) ==
    IF k = "none" THEN {ErrNotMapped}
    ELSE UNION {IF o.err = "nil" THEN {Identity(arn, o.rec)}
                ELSE MapFrom(NextLookup(k), s, arn) : o \in Lookup(k, s, arn)}

\* ConfigMapMapper.Map on a store that does not change during the call.
MapOn(s, canonicalARN) == MapFrom(FirstLookup, s, ToLower(canonicalARN))

\* --------------------------------------------------------------- universes

SeqsUpTo(S, n) == UNION {[1..k -> S] : k \in 0..n}

RoleUpper == <<"role/", "A">>
RoleLower == <<"role/", "a">>
RoleOther == <<"role/", "b">>
UserLower == <<"user/", "a">>
NotAnArn == <<"x">>
RoleStar == <<"role/", "*">>
RoleOne == <<"role/", "?">>
UserStar == <<"user/", "*">>
UserOne == <<"user/", "?">>
BadPattern == <<"*">>

\* The ARNs handed to Map and to the single lookups.
Arns == {RoleUpper, RoleLower, RoleOther, UserLower, NotAnArn}
AccountIds == {"123", "345", "567"}

rExactUpper == RoleRec(RoleUpper, Empty, "r1", <<"g1">>)
rExactLower == RoleRec(RoleLower, Empty, "r2", <<>>)
rPattern == RoleRec(Empty, RoleStar, "p1", <<"g1">>)
rPatternOne == RoleRec(Empty, RoleOne, "p2", <<>>)
rBoth == RoleRec(RoleLower, RoleStar, "b1", <<>>)
rNeither == RoleRec(Empty, Empty, "n1", <<>>)
rWrongShape == RoleRec(Empty, UserStar, "w1", <<>>)
rBadPattern == RoleRec(Empty, BadPattern, "w2", <<>>)
rNotAnArn == RoleRec(NotAnArn, Empty, "x1", <<>>)

uExact == UserRec(UserLower, Empty, "u1", <<"g1">>)
uSameArn == UserRec(RoleLower, Empty, "u2", <<>>)
uPattern == UserRec(Empty, UserOne, "q1", <<>>)
uRolePattern == UserRec(Empty, RoleStar, "w3", <<>>)
uBoth == UserRec(UserLower, UserStar, "b2", <<>>)

RoleRecs == {rExactUpper, rExactLower, rPattern, rBoth, rNeither, rWrongShape,
             rBadPattern, rNotAnArn}
UserRecs == {uExact, uSameArn, uPattern, uBoth}
AccountLists == {<<>>, <<"123", "345">>, <<"567">>}

\* The documents handed to ParseMap.
RoleFields == {Absent, BadYaml, TypeErr(<<rExactUpper>>)}
              \cup {ListOf(l) : l \in SeqsUpTo(RoleRecs, MaxLen)}
UserFields == {Absent, BadYaml} \cup {ListOf(l) : l \in SeqsUpTo(UserRecs, MaxLen)}
AccountFields == {Absent, BadYaml} \cup {ListOf(l) : l \in AccountLists}
Documents == {DataOf(u, r, a) : u \in UserFields, r \in RoleFields, a \in AccountFields}

\* The records handed to Validate: every combination of an ARN field and a
\* pattern field, set or not, well-formed or not, of either principal type.
ValArns == Arns \cup {Empty}
ValPatterns == {Empty, RoleStar, RoleOne, UserStar, UserOne, BadPattern}
ValRecords ==
    {[kind |-> "role", m |-> RoleRec(a, l, "n1", <<"g1">>)] : a \in ValArns, l \in ValPatterns}
    \cup {[kind |-> "user", m |-> UserRec(a, l, "n1", <<"g1">>)] :
              a \in ValArns, l \in ValPatterns}

\* The static configurations handed to NewFileMapper.
FileRoleRecs == {rExactUpper, rExactLower, rPattern, rPatternOne, rBoth, rNeither,
                 rWrongShape, rNotAnArn}
FileUserRecs == {uExact, uSameArn, uPattern, uRolePattern, uBoth}
Configs == {ConfigOf(r, u, a) : r \in SeqsUpTo(FileRoleRecs, MaxLen),
                                u \in SeqsUpTo(FileUserRecs, MaxLen),
                                a \in {<<>>, <<"123", "345">>}}

\* Configurations with repeated keys, for both mappers: exact entries whose
\* ARNs differ in letter case only, entries with the same pattern, an account
\* listed twice.
rPatternAgain == RoleRec(Empty, RoleStar, "p3", <<>>)
uExactUpper == UserRec(<<"user/", "A">>, Empty, "u3", <<>>)
uPatternAgain == UserRec(Empty, UserOne, "q2", <<"g1">>)
RepeatedRoleRecs == {rExactUpper, rExactLower, rPattern, rPatternAgain}
RepeatedUserRecs == {uExact, uExactUpper, uPattern, uPatternAgain}
RepeatedConfigs == {ConfigOf(r, u, a) : r \in SeqsUpTo(RepeatedRoleRecs, MaxRepeat),
                                        u \in SeqsUpTo(RepeatedUserRecs, MaxLen),
                                        a \in {<<>>, <<"123", "123">>}}

\* ------------------------------------------------------------------- state

VARIABLES
    backend,    \* the part of the program that runs: "codec", "validate", "file",
                \* "live", "client", "both"
    valIn,      \* the record Validate is called on, and its kind
    valOut,     \* what Validate returned, "none" before the call
    parseIn,    \* the document handed to ParseMap
    parseOut,   \* what ParseMap returned, NoResult before the call
    encIn,      \* the three lists handed to EncodeMap
    encOut,     \* the document EncodeMap returned
    reparse,    \* what ParseMap returned for that document
    cfg,        \* the static configuration
    fm,         \* the FileMapper built from cfg
    fpc,        \* "new", then "ready" or "failed" (NewFileMapper returned an error)
    fmCall,     \* the last FileMapper call: its argument and result
    doc,        \* the external ConfigMap aws-auth: present, Data, resourceVersion
    envSteps,   \* changes and stream events the environment has made so far
    stopCh,     \* TRUE once stopCh is closed
    afterStop,  \* history, per watcher: pre, the events in its channel that were
                \* there when stopCh was closed; late, the event it took last
                \* was put on the stream after stopCh was closed
    startsLeft, \* calls of ConfigMapMapper.Start still to come
    wpc,        \* per watcher goroutine: where it is in startLoadConfigMap / saveMap
    stream,     \* per watcher: its watch.Interface (open, buffered events)
    r,          \* per watcher: the event of the current range iteration
    args,       \* per watcher: the arguments of its saveMap call
    watchFailures, \* metrics.ConfigMapWatchFailures
    ms,         \* the MapStore tables
    mutex,      \* MapStore.mutex
    snapshot,   \* history: the tables as the last completed saveMap left them
    applied,    \* history: the last event for which saveMap completed
    rpc,        \* per reader: where it is in Map / AWSAccount
    rarn,       \* per reader: the (lower-cased) argument
    rout,       \* per reader: the argument as passed (arg), the result of the
                \* call, and (got) what its last single lookup returned
    rgens,      \* history, per reader: the complete generations during the call
    cli         \* per client call of add(): its position, arguments and locals

codecVars == <<valIn, valOut, parseIn, parseOut, encIn, encOut, reparse>>
fileVars == <<cfg, fm, fpc, fmCall>>
envVars == <<doc, envSteps>>
watchVars == <<stopCh, afterStop, startsLeft, wpc, stream, r, args, watchFailures>>
storeVars == <<ms, mutex, snapshot, applied>>
readVars == <<rpc, rarn, rout, rgens>>
liveVars == <<envVars, watchVars, storeVars, readVars>>
vars == <<backend, codecVars, fileVars, liveVars, cli>>

Watchers == 1..NumWatchers
Readers == 1..NumReaders
Clients == 1..NumClients

NoResult == [userMappings |-> <<>>, userArnLikeMappings |-> <<>>, roleMappings |-> <<>>,
             roleArnLikeMappings |-> <<>>, awsAccounts |-> <<>>, errs |-> <<>>,
             called |-> FALSE]
ResultOf(p) == [userMappings |-> p.userMappings,
                userArnLikeMappings |-> p.userArnLikeMappings,
                roleMappings |-> p.roleMappings,
                roleArnLikeMappings |-> p.roleArnLikeMappings,
                awsAccounts |-> p.awsAccounts, errs |-> p.errs, called |-> TRUE]
NoLists == [userMappings |-> <<>>, roleMappings |-> <<>>, awsAccounts |-> <<>>]
NoEncoded == [data |-> EmptyData, called |-> FALSE]
NoCall == [op |-> "none", arg |-> Empty, out |-> ErrNotMapped, allowed |-> FALSE]

NoStream == [open |-> FALSE, q |-> <<>>]
NotStopped == [pre |-> 0, late |-> FALSE]
NoDoc == [present |-> FALSE, data |-> EmptyData, version |-> 0]
NoGot == [k |-> "none", rec |-> NoRole, err |-> "nil"]
NoOut == [kind |-> "none", arg |-> Empty, id |-> ErrNotMapped, allowed |-> FALSE, got |-> NoGot]

EnvIdle == doc = NoDoc /\ envSteps = 0

MapperIdle ==
    /\ stopCh = FALSE /\ startsLeft = 0
    /\ afterStop = [w \in Watchers |-> NotStopped]
    /\ wpc = [w \in Watchers |-> "idle"]
    /\ stream = [w \in Watchers |-> NoStream]
    /\ r = [w \in Watchers |-> NoEvent]
    /\ args = [w \in Watchers |-> EmptyArgs]
    /\ watchFailures = 0
    /\ ms = EmptyStore /\ mutex = FreeMutex
    /\ snapshot = EmptyStore /\ applied = NoEvent
    /\ rpc = [i \in Readers |-> [at |-> "idle", k |-> "none"]]
    /\ rarn = [i \in Readers |-> Empty]
    /\ rout = [i \in Readers |-> NoOut]
    /\ rgens = [i \in Readers |-> {}]

LiveIdle == EnvIdle /\ MapperIdle

NoValidate == [kind |-> "none", m |-> NoRole]

CodecIdle ==
    /\ valIn = NoValidate /\ valOut = "none"
    /\ parseIn = EmptyData /\ parseOut = NoResult
    /\ encIn = NoLists /\ encOut = NoEncoded /\ reparse = NoResult
FileIdle == cfg = ConfigOf(<<>>, <<>>, <<>>) /\ fm = NewMapper /\ fpc = "new" /\ fmCall = NoCall

\* ------------------------------------------------------------ codec actions

\* A caller runs ParseMap on the document.
DoParse ==
    /\ backend = "codec"
    /\ ~parseOut.called
    /\ parseOut' = ResultOf(ParseMap(parseIn))
    /\ UNCHANGED <<backend, cli, valIn, valOut, parseIn, encIn, encOut, reparse, fileVars,
                   liveVars>>

\* A caller hands the lists ParseMap returned to EncodeMap, the exact records
\* of a kind followed by its pattern records.
DoEncode ==
    /\ backend = "codec"
    /\ parseOut.called
    /\ ~encOut.called
    /\ encIn' = [userMappings |-> parseOut.userMappings \o parseOut.userArnLikeMappings,
                 roleMappings |-> parseOut.roleMappings \o parseOut.roleArnLikeMappings,
                 awsAccounts |-> parseOut.awsAccounts]
    /\ encOut' = [data |-> EncodeMap(encIn'.userMappings, encIn'.roleMappings,
                                     encIn'.awsAccounts),
                  called |-> TRUE]
    /\ UNCHANGED <<backend, cli, valIn, valOut, parseIn, parseOut, reparse, fileVars,
                   liveVars>>

\* A caller runs ParseMap on the document EncodeMap returned.
DoReparse ==
    /\ backend = "codec"
    /\ encOut.called
    /\ ~reparse.called
    /\ reparse' = ResultOf(ParseMap(encOut.data))
    /\ UNCHANGED <<backend, cli, valIn, valOut, parseIn, parseOut, encIn, encOut, fileVars,
                   liveVars>>

\* A caller runs Validate on the record.
DoValidate ==
    /\ backend = "validate"
    /\ valOut = "none"
    /\ valOut' = IF valIn.kind = "role" THEN RoleValidate(valIn.m) ELSE UserValidate(valIn.m)
    /\ UNCHANGED <<backend, cli, valIn, parseIn, parseOut, encIn, encOut, reparse, fileVars,
                   liveVars>>

\* ------------------------------------------------------ static mapper actions

\* NewFileMapper(cfg)
FileBuild ==
    /\ backend = "file"
    /\ fpc = "new"
    /\ fm' = NewFileMapper(cfg)
    /\ fpc' = IF fm'.err = "nil" THEN "ready" ELSE "failed"
    /\ UNCHANGED <<backend, cli, cfg, fmCall, codecVars, liveVars>>

\* FileMapper.Map(arn)
FileMapCall ==
    /\ backend = "file"
    /\ fpc = "ready"
    /\ \E arn \in Arns : \E out \in FileMap(fm, arn) :
            fmCall' = [op |-> "Map", arg |-> arn, out |-> out, allowed |-> FALSE]
    /\ UNCHANGED <<backend, cli, cfg, fm, fpc, codecVars, liveVars>>

\* FileMapper.IsAccountAllowed(id)
FileAccountCall ==
    /\ backend = "file"
    /\ fpc = "ready"
    /\ \E id \in AccountIds :
            fmCall' = [op |-> "IsAccountAllowed", arg |-> <<id>>, out |-> ErrNotMapped,
                       allowed |-> FileIsAccountAllowed(fm, id)]
    /\ UNCHANGED <<backend, cli, cfg, fm, fpc, codecVars, liveVars>>


\* -------------------------------------------------------------- environment

\* The documents the external ConfigMap goes through.
LiveDocs ==
    {DataOf(Absent, ListOf(<<rExactUpper, rPattern>>), ListOf(<<"123", "345">>)),
     DataOf(ListOf(<<uSameArn, uPattern>>), Absent, ListOf(<<"567">>)),
     DataOf(ListOf(<<uPattern, uBoth>>),
            ListOf(<<rExactLower, rWrongShape, rPatternOne>>), BadYaml)}

\* The ARNs the front end asks the live mapper about.
LiveArns == {RoleUpper, RoleLower, UserLower, NotAnArn}

\* The account the front end asks the live mapper about.
LiveAccounts == {"123", "567"}

\* The API server sends ev on every open watch stream.
Emit(ev) == [w \in Watchers |-> IF stream[w].open
                                THEN [stream[w] EXCEPT !.q = Append(@, ev)]
                                ELSE stream[w]]

\* Somebody creates or updates the ConfigMap.
DocWrite ==
    /\ backend = "live"
    /\ envSteps < MaxEnvSteps
    /\ \E d \in LiveDocs :
        /\ ~(doc.present /\ doc.data = d)
        /\ doc' = [present |-> TRUE, data |-> d, version |-> doc.version + 1]
        /\ stream' = Emit(Ev(IF doc.present THEN "Modified" ELSE "Added", "aws-auth", d))
    /\ envSteps' = envSteps + 1
    /\ UNCHANGED <<backend, cli, codecVars, fileVars, stopCh, afterStop, startsLeft, wpc, r, args,
                   watchFailures, storeVars, readVars>>

\* Somebody deletes the ConfigMap.
DocDelete ==
    /\ backend = "live"
    /\ envSteps < MaxEnvSteps
    /\ doc.present
    /\ doc' = [doc EXCEPT !.present = FALSE, !.data = EmptyData]
    /\ stream' = Emit(Ev("Deleted", "aws-auth", EmptyData))
    /\ envSteps' = envSteps + 1
    /\ UNCHANGED <<backend, cli, codecVars, fileVars, stopCh, afterStop, startsLeft, wpc, r, args,
                   watchFailures, storeVars, readVars>>

\* A stream carries an event that is no change of aws-auth: a watch error,
\* an object of another name, an event of another type.
StreamNoise ==
    /\ backend = "live"
    /\ envSteps < MaxEnvSteps
    /\ \E w \in Watchers :
        /\ stream[w].open
        /\ \E ev \in {Ev("Error", "", EmptyData),
                      Ev("Added", "other", CHOOSE d \in LiveDocs : TRUE),
                      Ev("Bookmark", "aws-auth", EmptyData)} :
              stream' = [stream EXCEPT ![w].q = Append(@, ev)]
    /\ envSteps' = envSteps + 1
    /\ UNCHANGED <<backend, cli, codecVars, fileVars, doc, stopCh, afterStop,
                   startsLeft, wpc, r, args,
                   watchFailures, storeVars, readVars>>

\* The API server (or the network) ends a watch stream.
StreamClose ==
    /\ backend = "live"
    /\ \E w \in Watchers :
        /\ stream[w].open
        /\ stream' = [stream EXCEPT ![w].open = FALSE]
    /\ UNCHANGED <<backend, cli, codecVars, fileVars, envVars, stopCh, afterStop,
                   startsLeft, wpc, r, args,
                   watchFailures, storeVars, readVars>>

\* The owner of the mapper closes stopCh.
Stop ==
    /\ backend = "live"
    /\ ~stopCh
    /\ stopCh' = TRUE
    /\ afterStop' = [w \in Watchers |-> [pre |-> Len(stream[w].q), late |-> FALSE]]
    /\ UNCHANGED <<backend, cli, codecVars, fileVars, envVars, startsLeft, wpc, stream, r, args,
                   watchFailures, storeVars, readVars>>

\* ------------------------------------------------------------------ watcher

\* ConfigMapMapper.Start: startLoadConfigMap launches a goroutine.
Start ==
    /\ backend = "live"
    /\ startsLeft > 0
    /\ \E w \in Watchers :
        /\ wpc[w] = "idle"
        /\ \A v \in Watchers : v < w => wpc[v] /= "idle"
        /\ wpc' = [wpc EXCEPT ![w] = "select"]
    /\ startsLeft' = startsLeft - 1
    /\ UNCHANGED <<backend, cli, codecVars, fileVars, envVars, stopCh, afterStop, stream, r, args,
                   watchFailures, storeVars, readVars>>

\* select { case <-stopCh: return
SelectStop(w) ==
    /\ wpc[w] = "select"
    /\ stopCh
    /\ wpc' = [wpc EXCEPT ![w] = "stopped"]
    /\ UNCHANGED <<backend, cli, codecVars, fileVars, envVars, stopCh, afterStop,
                   startsLeft, stream, r,
                   args, watchFailures, storeVars, readVars>>

\* default: Watch(...) succeeds.  A watch without a resource version starts
\* with an Added event for the object when it exists.
WatchOk(w) ==
    /\ wpc[w] = "select"
    /\ ~stopCh
    /\ stream' = [stream EXCEPT ![w] =
                    [open |-> TRUE,
                     q |-> IF doc.present THEN <<Ev("Added", "aws-auth", doc.data)>>
                           ELSE <<>>]]
    /\ wpc' = [wpc EXCEPT ![w] = "range"]
    /\ UNCHANGED <<backend, cli, codecVars, fileVars, envVars, stopCh, afterStop,
                   startsLeft, r, args,
                   watchFailures, storeVars, readVars>>

\* default: Watch(...) fails: count it and sleep.
WatchErr(w) ==
    /\ wpc[w] = "select"
    /\ ~stopCh
    /\ watchFailures < MaxFailures
    /\ watchFailures' = Inc(watchFailures)
    /\ wpc' = [wpc EXCEPT ![w] = "sleep"]
    /\ UNCHANGED <<backend, cli, codecVars, fileVars, envVars, stopCh, afterStop,
                   startsLeft, stream, r,
                   args, storeVars, readVars>>

\* time.Sleep(5 * time.Second); continue
Wake(w) ==
    /\ wpc[w] = "sleep"
    /\ wpc' = [wpc EXCEPT ![w] = AfterSleep]
    /\ UNCHANGED <<backend, cli, codecVars, fileVars, envVars, stopCh, afterStop,
                   startsLeft, stream, r,
                   args, watchFailures, storeVars, readVars>>

\* The range loop has an event to take from the channel.
CanRecv(w) == wpc[w] = "range" /\ stream[w].q /= <<>>

\* for r := range watcher.ResultChan() { switch r.Type ... }: the next event,
\* up to the call of saveMap.
Recv(w) ==
    /\ CanRecv(w)
    /\ LET ev == Head(stream[w].q)
           h == HandleEvent(ev)
       IN  /\ r' = [r EXCEPT ![w] = ev]
           /\ stream' = [stream EXCEPT ![w].q = Tail(@)]
           /\ args' = [args EXCEPT ![w] = IF h.save THEN h.args ELSE @]
           /\ wpc' = [wpc EXCEPT ![w] = IF h.save THEN "lock" ELSE "range"]
    /\ afterStop' = [afterStop EXCEPT ![w] =
                        IF ~stopCh THEN @
                        ELSE IF @.pre > 0 THEN [pre |-> @.pre - 1, late |-> FALSE]
                        ELSE [pre |-> 0, late |-> TRUE]]
    /\ UNCHANGED <<backend, cli, codecVars, fileVars, envVars, stopCh, startsLeft,
                   watchFailures, storeVars, readVars>>

\* The channel is closed and drained: logrus.Error("Watch channel closed.")
ChanClosed(w) ==
    /\ wpc[w] = "range"
    /\ stream[w].q = <<>>
    /\ ~stream[w].open
    /\ wpc' = [wpc EXCEPT ![w] = RangeEnd]
    /\ UNCHANGED <<backend, cli, codecVars, fileVars, envVars, stopCh, afterStop,
                   startsLeft, stream, r,
                   args, watchFailures, storeVars, readVars>>

\* ms.mutex.Lock(), first half: take the writers' mutex and announce.
SaveLock(w) ==
    /\ wpc[w] = "lock"
    /\ mutex.writer = 0
    /\ mutex' = [mutex EXCEPT !.writer = w]
    /\ wpc' = [wpc EXCEPT ![w] = "lockWait"]
    /\ UNCHANGED <<backend, cli, codecVars, fileVars, envVars, stopCh, afterStop,
                   startsLeft, stream, r,
                   args, watchFailures, ms, snapshot, applied, readVars>>

\* ms.mutex.Lock(), second half: the active readers have left.
SaveAcquire(w) ==
    /\ wpc[w] = "lockWait"
    /\ LockReady(mutex)
    /\ mutex' = [mutex EXCEPT !.held = TRUE]
    /\ wpc' = [wpc EXCEPT ![w] = "clear"]
    /\ UNCHANGED <<backend, cli, codecVars, fileVars, envVars, stopCh, afterStop,
                   startsLeft, stream, r,
                   args, watchFailures, ms, snapshot, applied, readVars>>

\* The body of saveMap, one statement group at a time.
SaveStep(w) ==
    /\ wpc[w] \in {"clear", "users", "userArnLikes", "roles", "roleArnLikes", "accounts"}
    /\ ms' = CASE wpc[w] = "clear" -> SaveClear(ms)
               [] wpc[w] = "users" -> SaveUsers(ms, args[w])
               [] wpc[w] = "userArnLikes" -> SaveUserArnLikes(ms, args[w])
               [] wpc[w] = "roles" -> SaveRoles(ms, args[w])
               [] wpc[w] = "roleArnLikes" -> SaveRoleArnLikes(ms, args[w])
               [] OTHER -> SaveAccounts(ms, args[w])
    /\ wpc' = [wpc EXCEPT ![w] =
                 CASE wpc[w] = "clear" -> "users"
                   [] wpc[w] = "users" -> "userArnLikes"
                   [] wpc[w] = "userArnLikes" -> "roles"
                   [] wpc[w] = "roles" -> "roleArnLikes"
                   [] wpc[w] = "roleArnLikes" -> "accounts"
                   [] OTHER -> "unlock"]
    /\ UNCHANGED <<backend, cli, codecVars, fileVars, envVars, stopCh, afterStop,
                   startsLeft, stream, r,
                   args, watchFailures, mutex, snapshot, applied, readVars>>

\* defer ms.mutex.Unlock(): saveMap returns and the range loop goes on.
SaveUnlock(w) ==
    /\ wpc[w] = "unlock"
    /\ mutex' = [mutex EXCEPT !.writer = 0, !.held = FALSE]
    /\ wpc' = [wpc EXCEPT ![w] = "range"]
    /\ snapshot' = ms
    /\ applied' = r[w]
    /\ rgens' = [i \in Readers |-> IF rpc[i].at \in {"rlock", "cs"}
                                   THEN rgens[i] \cup {ms} ELSE rgens[i]]
    /\ UNCHANGED <<backend, cli, codecVars, fileVars, envVars, stopCh, afterStop,
                   startsLeft, stream, r,
                   args, watchFailures, ms, rpc, rarn, rout>>

\* ------------------------------------------------------------------ readers

At(at, k) == [at |-> at, k |-> k]
IdlePc == At("idle", "none")

\* ConfigMapMapper.Map(arn) is called: canonicalARN = strings.ToLower(...)
MapCall(i) ==
    /\ backend = "live"
    /\ rpc[i] = IdlePc
    /\ \E arn \in LiveArns :
          /\ rarn' = [rarn EXCEPT ![i] = ToLower(arn)]
          /\ rout' = [rout EXCEPT ![i].arg = arn]
    /\ rpc' = [rpc EXCEPT ![i] = At("rlock", FirstLookup)]
    /\ rgens' = [rgens EXCEPT ![i] = {snapshot}]
    /\ UNCHANGED <<backend, cli, codecVars, fileVars, envVars, watchVars, storeVars>>

\* ConfigMapMapper.IsAccountAllowed(id) is called.
AccountCall(i) ==
    /\ backend = "live"
    /\ rpc[i] = IdlePc
    /\ \E id \in LiveAccounts : rarn' = [rarn EXCEPT ![i] = <<id>>]
    /\ rpc' = [rpc EXCEPT ![i] = At("rlock", "account")]
    /\ rgens' = [rgens EXCEPT ![i] = {snapshot}]
    /\ UNCHANGED <<backend, cli, codecVars, fileVars, envVars, watchVars, storeVars, rout>>

\* ms.mutex.RLock() of a lookup
RLock(i) ==
    /\ rpc[i].at = "rlock"
    /\ RLockReady(mutex)
    /\ mutex' = [mutex EXCEPT !.readers = @ + 1]
    /\ rpc' = [rpc EXCEPT ![i].at = "cs"]
    /\ UNCHANGED <<backend, cli, codecVars, fileVars, envVars, watchVars, ms, snapshot, applied,
                   rarn, rout, rgens>>

\* The body of one lookup of Map and its RUnlock, then Map's test of err.
MapLookup(i) ==
    /\ rpc[i].at = "cs"
    /\ rpc[i].k /= "account"
    /\ mutex' = [mutex EXCEPT !.readers = @ - 1]
    /\ \E o \in Lookup(rpc[i].k, ms, rarn[i]) :
        LET got == [k |-> rpc[i].k, rec |-> o.rec, err |-> o.err] IN
        IF o.err = "nil"
        THEN /\ rout' = [rout EXCEPT ![i] = [kind |-> "map", arg |-> rout[i].arg,
                                             id |-> Identity(rarn[i], o.rec),
                                             allowed |-> FALSE, got |-> got]]
             /\ rpc' = [rpc EXCEPT ![i].at = "done"]
        ELSE IF NextLookup(rpc[i].k) = "none"
        THEN /\ rout' = [rout EXCEPT ![i] = [kind |-> "map", arg |-> rout[i].arg,
                                             id |-> ErrNotMapped,
                                             allowed |-> FALSE, got |-> got]]
             /\ rpc' = [rpc EXCEPT ![i].at = "done"]
        ELSE /\ rout' = [rout EXCEPT ![i].got = got]
             /\ rpc' = [rpc EXCEPT ![i] = At("rlock", NextLookup(rpc[i].k))]
    /\ UNCHANGED <<backend, cli, codecVars, fileVars, envVars, watchVars, ms, snapshot, applied,
                   rarn, rgens>>

\* The body of AWSAccount and its RUnlock.
AccountLookup(i) ==
    /\ rpc[i].at = "cs"
    /\ rpc[i].k = "account"
    /\ mutex' = [mutex EXCEPT !.readers = @ - 1]
    /\ rout' = [rout EXCEPT ![i] = [kind |-> "account", arg |-> Empty, id |-> ErrNotMapped,
                                    allowed |-> AWSAccount(ms, rarn[i][1]),
                                    got |-> NoGot]]
    /\ rpc' = [rpc EXCEPT ![i].at = "done"]
    /\ UNCHANGED <<backend, cli, codecVars, fileVars, envVars, watchVars, ms, snapshot, applied,
                   rarn, rgens>>

\* The caller takes the result.
Return(i) ==
    /\ rpc[i].at = "done"
    /\ rpc' = [rpc EXCEPT ![i] = IdlePc]
    /\ rarn' = [rarn EXCEPT ![i] = Empty]
    /\ rout' = [rout EXCEPT ![i] = NoOut]
    /\ rgens' = [rgens EXCEPT ![i] = {}]
    /\ UNCHANGED <<backend, cli, codecVars, fileVars, envVars, watchVars, storeVars>>

Watcher(w) ==
    \/ SelectStop(w) \/ WatchOk(w) \/ WatchErr(w) \/ Wake(w) \/ Recv(w) \/ ChanClosed(w)
    \/ SaveLock(w) \/ SaveAcquire(w) \/ SaveStep(w) \/ SaveUnlock(w)

Reader(i) ==
    \/ MapCall(i) \/ AccountCall(i) \/ RLock(i) \/ MapLookup(i) \/ AccountLookup(i)
    \/ Return(i)

Environment == DocWrite \/ DocDelete \/ StreamNoise \/ StreamClose \/ Stop

\* ---------------------------------------------------------- specifications

\* ------------------------------------------------------------ update client

\* retry.DefaultRetry.Steps: the number of times RetryOnConflict runs fn.
DefaultRetrySteps == 5

\* for _, r := range roleMappings { if r.RoleARN == role.RoleARN { return dup } }
DuplicateRole(roleMappings, role) ==
    \E j \in 1..Len(roleMappings) : roleMappings[j].RoleARN = role.RoleARN

\* for _, r := range userMappings { if r.UserARN == user.UserARN { return dup } }
DuplicateUser(userMappings, user) ==
    \E j \in 1..Len(userMappings) : userMappings[j].UserARN = user.UserARN

\* The body of the retried function between getMap and updateMap, for
\* AddRole (kind "role") and AddUser (kind "user"): the error it returns, or
\* the data it is going to write.  userMappings and roleMappings are the
\* results of ParseMap of these names.
AddBody(data, kind, m) ==
    LET p == ParseMap(data) IN
    IF p.errs /= <<>> THEN [err |-> "parse", data |-> data]
    ELSE IF kind = "role" /\ DuplicateRole(p.roleMappings, m)
    THEN [err |-> "duplicate", data |-> data]
    ELSE IF kind = "user" /\ DuplicateUser(p.userMappings, m)
    THEN [err |-> "duplicate", data |-> data]
    ELSE [err |-> "nil",
          data |-> EncodeMap(IF kind = "user" THEN Append(p.userMappings, m)
                             ELSE p.userMappings,
                             IF kind = "role" THEN Append(p.roleMappings, m)
                             ELSE p.roleMappings,
                             p.awsAccounts)]

\* Fault variant of the retry: after a conflict it submits the same copy again.
AfterConflictResubmit(attempts) ==
    IF attempts < DefaultRetrySteps THEN "update" ELSE "done"

\* RetryOnConflict after fn returned a conflict error: fn runs again unless
\* it has run DefaultRetry.Steps times.
AfterConflict(attempts) ==
    IF attempts < DefaultRetrySteps THEN "get" ELSE "done"

\* A client that is not inside add().
IdleClient(calls) ==
    [pc |-> "idle", kind |-> "none", m |-> NoRole, read |-> EmptyData,
     cm |-> [data |-> EmptyData, version |-> 0], attempts |-> 0, conflicts |-> 0,
     seen |-> 0, wrote |-> FALSE, err |-> "nil", calls |-> calls]
ClientIdle == cli = [c \in Clients |-> IdleClient(0)]

\* The entries the administrators add.
AddedRoles == {rExactUpper, rExactLower, rPattern}
AddedUsers == {uSameArn, uPattern}

\* AddRole(role) / AddUser(user) is called with a non-nil entry.
AddCall(c) ==
    /\ backend = "client"
    /\ cli[c].pc = "idle"
    /\ cli[c].calls < MaxCalls
    /\ \E kind \in {"role", "user"} :
        \E m \in IF kind = "role" THEN AddedRoles ELSE AddedUsers :
            cli' = [cli EXCEPT ![c] = [IdleClient(cli[c].calls) EXCEPT
                                          !.pc = "get", !.kind = kind, !.m = m]]
    /\ UNCHANGED <<backend, codecVars, fileVars, liveVars>>

\* Fault variant of the run of fn: RetryOnConflict treats every error of fn
\* as it treats a conflict.
GetMapRetryAnyError(c) ==
    /\ cli[c].pc = "get"
    /\ LET b == AddBody(doc.data, cli[c].kind, cli[c].m)
           next == [cli[c] EXCEPT !.attempts = @ + 1, !.read = EmptyData]
           after == AfterConflict(next.attempts)
       IN  cli' = [cli EXCEPT ![c] =
                IF ~doc.present
                THEN [next EXCEPT !.pc = after, !.err = "notfound"]
                ELSE IF b.err /= "nil"
                THEN [next EXCEPT !.pc = after, !.err = b.err, !.read = doc.data]
                ELSE [next EXCEPT !.pc = "update", !.read = doc.data,
                                  !.cm = [data |-> b.data, version |-> doc.version]]]
    /\ UNCHANGED <<backend, codecVars, fileVars, liveVars>>

\* One run of fn up to updateMap: cli.getMap(), ParseMap, the duplicate
\* checks, EncodeMap.
GetMap(c) ==
    /\ cli[c].pc = "get"
    /\ LET b == AddBody(doc.data, cli[c].kind, cli[c].m)
           next == [cli[c] EXCEPT !.attempts = @ + 1, !.read = EmptyData]
       IN  cli' = [cli EXCEPT ![c] =
                IF ~doc.present
                THEN [next EXCEPT !.pc = "done", !.err = "notfound"]
                ELSE IF b.err /= "nil"
                THEN [next EXCEPT !.pc = "done", !.err = b.err, !.read = doc.data]
                ELSE [next EXCEPT !.pc = "update", !.read = doc.data,
                                  !.cm = [data |-> b.data, version |-> doc.version]]]
    /\ UNCHANGED <<backend, codecVars, fileVars, liveVars>>

\* cli.updateMap(cm): the write succeeds when the resourceVersion is still
\* the one read; a conflict goes back to RetryOnConflict.
UpdateMap(c) ==
    /\ cli[c].pc = "update"
    /\ IF ~doc.present
       THEN /\ cli' = [cli EXCEPT ![c].pc = "done", ![c].err = "notfound"]
            /\ doc' = doc
       ELSE IF cli[c].cm.version = doc.version
       THEN /\ doc' = [present |-> TRUE, data |-> cli[c].cm.data,
                       version |-> doc.version + 1]
            /\ cli' = [cli EXCEPT ![c].pc = "done", ![c].err = "nil",
                                  ![c].wrote = TRUE]
       ELSE /\ doc' = doc
            /\ cli' = [cli EXCEPT
                         ![c].pc = AfterConflict(cli[c].attempts),
                         ![c].conflicts = @ + 1,
                         ![c].seen = doc.version,
                         ![c].err = IF AfterConflict(cli[c].attempts) = "done"
                                    THEN "conflict" ELSE @]
    /\ UNCHANGED <<backend, codecVars, fileVars, envSteps, watchVars, storeVars, readVars>>

\* add() returns (cm, err) to its caller.
AddReturn(c) ==
    /\ cli[c].pc = "done"
    /\ cli' = [cli EXCEPT ![c] = IdleClient(cli[c].calls + 1)]
    /\ UNCHANGED <<backend, codecVars, fileVars, liveVars>>

\* Another party updates the ConfigMap.
ExternalUpdate ==
    /\ backend = "client"
    /\ envSteps < MaxEdits
    /\ doc.present
    /\ \E d \in LiveDocs :
        /\ d /= doc.data
        /\ doc' = [present |-> TRUE, data |-> d, version |-> doc.version + 1]
    /\ envSteps' = envSteps + 1
    /\ UNCHANGED <<backend, cli, codecVars, fileVars, watchVars, storeVars, readVars>>

\* Another party deletes the ConfigMap.
ExternalDelete ==
    /\ backend = "client"
    /\ envSteps < MaxEdits
    /\ doc.present
    /\ doc' = NoDoc
    /\ envSteps' = envSteps + 1
    /\ UNCHANGED <<backend, cli, codecVars, fileVars, watchVars, storeVars, readVars>>

Client(c) == AddCall(c) \/ GetMap(c) \/ UpdateMap(c) \/ AddReturn(c)

\* ----------------------------------------------------------- specifications

InitCodec ==
    /\ backend = "codec"
    /\ valIn = NoValidate /\ valOut = "none"
    /\ parseIn \in Documents
    /\ parseOut = NoResult
    /\ encIn = NoLists /\ encOut = NoEncoded /\ reparse = NoResult
    /\ FileIdle
    /\ LiveIdle
    /\ ClientIdle

InitValidate ==
    /\ backend = "validate"
    /\ valIn \in ValRecords
    /\ valOut = "none"
    /\ parseIn = EmptyData /\ parseOut = NoResult
    /\ encIn = NoLists /\ encOut = NoEncoded /\ reparse = NoResult
    /\ FileIdle
    /\ LiveIdle
    /\ ClientIdle

InitFile ==
    /\ backend = "file"
    /\ cfg \in Configs
    /\ fm = NewMapper
    /\ fpc = "new"
    /\ fmCall = NoCall
    /\ CodecIdle
    /\ LiveIdle
    /\ ClientIdle

NextCodec == DoParse \/ DoEncode \/ DoReparse
NextValidate == DoValidate
NextFile == FileBuild \/ FileMapCall \/ FileAccountCall

InitLive ==
    /\ backend = "live"
    /\ doc = NoDoc /\ envSteps = 0
    /\ stopCh = FALSE /\ startsLeft = 1
    /\ afterStop = [w \in Watchers |-> NotStopped]
    /\ wpc = [w \in Watchers |-> "idle"]
    /\ stream = [w \in Watchers |-> NoStream]
    /\ r = [w \in Watchers |-> NoEvent]
    /\ args = [w \in Watchers |-> EmptyArgs]
    /\ watchFailures = 0
    /\ ms = EmptyStore /\ mutex = FreeMutex
    /\ snapshot = EmptyStore /\ applied = NoEvent
    /\ rpc = [i \in Readers |-> IdlePc]
    /\ rarn = [i \in Readers |-> Empty]
    /\ rout = [i \in Readers |-> NoOut]
    /\ rgens = [i \in Readers |-> {}]
    /\ CodecIdle
    /\ FileIdle
    /\ ClientIdle

\* As InitLive, with as many calls of Start to come as there are goroutine
\* slots.
InitStarts ==
    /\ backend = "live"
    /\ doc = NoDoc /\ envSteps = 0
    /\ stopCh = FALSE /\ startsLeft = NumWatchers
    /\ afterStop = [w \in Watchers |-> NotStopped]
    /\ wpc = [w \in Watchers |-> "idle"]
    /\ stream = [w \in Watchers |-> NoStream]
    /\ r = [w \in Watchers |-> NoEvent]
    /\ args = [w \in Watchers |-> EmptyArgs]
    /\ watchFailures = 0
    /\ ms = EmptyStore /\ mutex = FreeMutex
    /\ snapshot = EmptyStore /\ applied = NoEvent
    /\ rpc = [i \in Readers |-> IdlePc]
    /\ rarn = [i \in Readers |-> Empty]
    /\ rout = [i \in Readers |-> NoOut]
    /\ rgens = [i \in Readers |-> {}]
    /\ CodecIdle
    /\ FileIdle
    /\ ClientIdle

InitClient ==
    /\ backend = "client"
    /\ doc \in {NoDoc} \cup {[present |-> TRUE, data |-> d, version |-> 1] : d \in LiveDocs}
    /\ envSteps = 0
    /\ cli = [c \in Clients |-> IdleClient(0)]
    /\ MapperIdle
    /\ CodecIdle
    /\ FileIdle

InitMap == InitFile \/ InitLive

\* The watcher while the watch stream stays up.
Streaming(w) ==
    \/ WatchOk(w) \/ Recv(w) \/ SaveLock(w) \/ SaveAcquire(w) \/ SaveStep(w)
    \/ SaveUnlock(w)

NextLive ==
    \/ DocWrite \/ DocDelete
    \/ Start
    \/ \E w \in Watchers : Streaming(w)
    \/ \E i \in Readers : Reader(i)

NextWatch ==
    \/ Environment
    \/ Start
    \/ \E w \in Watchers : Watcher(w)

NextStarts ==
    \/ DocWrite \/ DocDelete
    \/ Start
    \/ \E w \in Watchers : Streaming(w)

NextClient ==
    \/ ExternalUpdate \/ ExternalDelete
    \/ Client(1)

NextRace == \E c \in Clients : Client(c)

NextMap == NextFile \/ NextLive

\* The document codec alone.
SpecCodec == InitCodec /\ [][NextCodec]_vars

\* Validate alone.
SpecValidate == InitValidate /\ [][NextValidate]_vars

\* The static mapper alone.
SpecFile == InitFile /\ [][NextFile]_vars

\* The live store: the watcher goroutine on a stream that stays up, and the
\* readers.
SpecLive == InitLive /\ [][NextLive]_vars

\* The Go scheduler runs every goroutine that can take a step: a lookup that
\* holds the read lock finishes, saveMap goes on when it can.  A goroutine
\* blocked in RLock behind a writer is among the readers Unlock releases, so
\* it gets the lock however often writers come and go.
LiveFairness ==
    /\ \A i \in Readers :
          /\ SF_vars(RLock(i))
          /\ WF_vars(MapLookup(i) \/ AccountLookup(i) \/ Return(i))
    /\ \A w \in Watchers :
          WF_vars(SaveLock(w) \/ SaveAcquire(w) \/ SaveStep(w) \/ SaveUnlock(w))

\* The store's lock: the watcher applies the documents as they are written,
\* the readers call.
NextLock ==
    \/ DocWrite
    \/ Start
    \/ \E w \in Watchers : Streaming(w)
    \/ \E i \in Readers : Reader(i)

\* The store's lock under a fair scheduler.
SpecLock == InitLive /\ [][NextLock]_vars /\ LiveFairness

\* The watcher goroutine with everything its environment can do.
SpecWatch == InitLive /\ [][NextWatch]_vars

\* Start called more than once on one mapper, the streams staying up.
SpecStarts == InitStarts /\ [][NextStarts]_vars

\* Either backend behind the Mapper interface.
SpecMap == InitMap /\ [][NextMap]_vars

\* One update client and the other writers of the ConfigMap, whatever they
\* are.
SpecClient == InitClient /\ [][NextClient]_vars

\* The update clients against each other, no other writer.
SpecRace == InitClient /\ [][NextRace]_vars

\* ------------------------------------------------------------ both backends

\* saveMap as a whole, on a store no reader is using.
SaveMap(s, a) ==
    SaveAccounts(SaveRoleArnLikes(SaveRoles(SaveUserArnLikes(SaveUsers(SaveClear(s), a), a),
                                            a), a), a)

\* The aws-auth document that holds the records of a configuration.
DocumentOf(c) ==
    DataOf(ListOf(c.UserMappings), ListOf(c.RoleMappings), ListOf(c.AutoMappedAWSAccounts))

InitBackends ==
    /\ backend = "both"
    /\ cfg \in Configs \cup RepeatedConfigs
    /\ fm = NewMapper
    /\ fpc = "new"
    /\ fmCall = NoCall
    /\ CodecIdle
    /\ LiveIdle
    /\ ClientIdle

\* Both mappers are loaded with the records of cfg: NewFileMapper(cfg) for
\* the static one; for the live one the watcher receives the Added event of
\* the document and runs saveMap to its end.
LoadBoth ==
    /\ backend = "both"
    /\ fpc = "new"
    /\ fm' = NewFileMapper(cfg)
    /\ fpc' = IF fm'.err = "nil" THEN "ready" ELSE "failed"
    /\ LET ev == Ev("Added", "aws-auth", DocumentOf(cfg))
       IN  /\ ms' = SaveMap(ms, HandleEvent(ev).args)
           /\ snapshot' = ms'
           /\ applied' = ev
    /\ UNCHANGED <<backend, cli, cfg, fmCall, codecVars, envVars, watchVars, mutex, readVars>>

\* FileMapper.Map(arn) and ConfigMapMapper.Map(arn) with the same argument,
\* while no saveMap runs.
MapBoth ==
    /\ backend = "both"
    /\ fpc = "ready"
    /\ \E arn \in Arns : \E out \in FileMap(fm, arn) : \E id \in MapOn(ms, arn) :
        /\ fmCall' = [op |-> "Map", arg |-> arn, out |-> out, allowed |-> FALSE]
        /\ rarn' = [i \in Readers |-> ToLower(arn)]
        /\ rout' = [i \in Readers |-> [kind |-> "map", arg |-> arn, id |-> id,
                                        allowed |-> FALSE, got |-> NoGot]]
    /\ UNCHANGED <<backend, cli, cfg, fm, fpc, codecVars, envVars, watchVars, storeVars,
                   rpc, rgens>>

\* IsAccountAllowed(id) of both mappers with the same argument.
IsAccountAllowedBoth ==
    /\ backend = "both"
    /\ fpc = "ready"
    /\ \E id \in AccountIds :
        /\ fmCall' = [op |-> "IsAccountAllowed", arg |-> <<id>>, out |-> ErrNotMapped,
                      allowed |-> FileIsAccountAllowed(fm, id)]
        /\ rarn' = [i \in Readers |-> <<id>>]
        /\ rout' = [i \in Readers |-> [kind |-> "account", arg |-> Empty,
                                        id |-> ErrNotMapped,
                                        allowed |-> AWSAccount(ms, id), got |-> NoGot]]
    /\ UNCHANGED <<backend, cli, cfg, fm, fpc, codecVars, envVars, watchVars, storeVars,
                   rpc, rgens>>

NextBackends == LoadBoth \/ MapBoth \/ IsAccountAllowedBoth

\* The two mappers side by side, loaded once with the same records.
SpecBackends == InitBackends /\ [][NextBackends]_vars

\* ------------------------------------------------------------------ claims

Range(list) == {list[j] : j \in 1..Len(list)}

\* The table a list of records stands for: one entry per key, the last
\* record of the list that has the key.
LastIndex(list, Key(_), k) ==
    CHOOSE j \in 1..Len(list) :
        Key(list[j]) = k /\ \A h \in (j + 1)..Len(list) : Key(list[h]) /= k
TableBy(list, Key(_)) ==
    [k \in {Key(list[j]) : j \in 1..Len(list)} |-> list[LastIndex(list, Key, k)]]
UserKey(m) == ToLower(m.UserARN)
UserLikeKey(m) == m.UserARNLike
RoleKey(m) == ToLower(m.RoleARN)
RoleLikeKey(m) == m.RoleARNLike

\* The store content derived from one event alone.
GenerationOf(ev) ==
    IF ev.type \in {"Added", "Modified"}
    THEN LET p == ParseMap(ev.data)
         IN  [users |-> TableBy(p.userMappings, UserKey),
              userArnLikes |-> TableBy(p.userArnLikeMappings, UserLikeKey),
              roles |-> TableBy(p.roleMappings, RoleKey),
              roleArnLikes |-> TableBy(p.roleArnLikeMappings, RoleLikeKey),
              awsAccounts |-> Range(p.awsAccounts)]
    ELSE EmptyStore

\* No watcher is inside saveMap.
NoSaveRunning ==
    \A w \in Watchers : wpc[w] \in {"idle", "select", "sleep", "range", "stopped"}

\* C1: while a lookup holds the read lock, the five tables are those of one
\* complete generation, the one the last completed saveMap built from a
\* single event; no saveMap is between its Lock and its Unlock.
C1_LookupSeesOneGeneration ==
    \A i \in Readers :
        rpc[i].at = "cs" =>
            /\ ~mutex.held
            /\ ms = snapshot
            /\ ms = GenerationOf(applied)

\* C1 witness: a lookup is inside its critical section on a refilled store
\* while the watcher, with the next event, waits for the lock.
C1_Witness ==
    \E i \in Readers : \E w \in Watchers :
        /\ rpc[i].at = "cs"
        /\ wpc[w] = "lockWait"
        /\ applied.type \in {"Added", "Modified"}
        /\ ms /= EmptyStore

\* C2: a finished Map call returned what resolving its ARN against one of
\* the generations that were current during the call gives.
C2_MapSeesOneGeneration ==
    \A i \in Readers :
        (rpc[i].at = "done" /\ rout[i].kind = "map") =>
            rout[i].id \in UNION {MapOn(g, rarn[i]) : g \in rgens[i]}

\* C5: once the watcher has processed a Deleted event, the four tables and
\* the account set are empty: every lookup of a previously mapped ARN answers
\* with its not-found error and AWSAccount answers false for every account.
C5_DeleteEmptiesStore ==
    \A w \in Watchers :
        (r[w].type = "Deleted" /\ wpc[w] \in {"range", "select", "sleep", "stopped"}) =>
            /\ ms.users = EmptyMap /\ ms.userArnLikes = EmptyMap
            /\ ms.roles = EmptyMap /\ ms.roleArnLikes = EmptyMap
            /\ ms.awsAccounts = {}
            /\ \A a \in Arns :
                /\ RoleMapping(ms, ToLower(a)) = Miss(NoRole, "RoleNotFound")
                /\ UserMapping(ms, ToLower(a)) = Miss(NoUser, "UserNotFound")
                /\ RoleArnLikeMapping(ms, ToLower(a)) = {Miss(NoRole, "RoleARNLikeNotMatched")}
                /\ UserArnLikeMapping(ms, ToLower(a)) = {Miss(NoUser, "UserARNLikeNotMatched")}
            /\ \A id \in AccountIds : ~AWSAccount(ms, id)

\* C5 witness: the watcher has finished saveMap for a Deleted event that
\* followed a document with entries.
C5_Witness ==
    \E w \in Watchers :
        /\ r[w].type = "Deleted" /\ wpc[w] = "range"
        /\ applied.type = "Deleted"
        /\ snapshot = EmptyStore
        /\ ~doc.present /\ doc.version > 0

\* C6: whenever no saveMap is running, the store is exactly the content of
\* the last Added, Modified or Deleted event the watcher took from its
\* stream: nothing of an earlier event is left (accounts 123 and 345
\* followed by the single account 567 leave 567 only).
C6_StoreIsLastEvent ==
    NoSaveRunning =>
        /\ ms = GenerationOf(applied)
        /\ \A w \in Watchers :
            (wpc[w] \in {"range", "select", "sleep", "stopped"}
             /\ HandleEvent(r[w]).save) => applied = r[w]
        /\ (applied.type \in {"Added", "Modified"}
            /\ applied.data.mapAccounts = ListOf(<<"567">>)) => ms.awsAccounts = {"567"}

\* C6 witness: the event with account 567 and a user entry has replaced the
\* earlier one with accounts 123, 345 and role entries.
C6_Witness ==
    /\ NoSaveRunning
    /\ applied.type = "Modified"
    /\ ms.awsAccounts = {"567"}
    /\ ms.roles = EmptyMap /\ ms.roleArnLikes = EmptyMap
    /\ ms.users /= EmptyMap

\* C7: ParseMap returns every well-formed record of a field next to the
\* aggregated error that the invalid records and the unreadable fields
\* contribute; a record that sets both or neither of the exact ARN and the
\* pattern adds an error and stops nothing: the remaining records and the
\* other fields are still returned.
FieldRecs(f) == IF f.kind = "list" THEN f.recs ELSE <<>>
C7_PartialParse ==
    parseOut.called =>
        /\ \A m \in Range(FieldRecs(parseIn.mapRoles)) :
            /\ (RoleValidate(m) = "nil" /\ m.RoleARN /= Empty)
                   => m \in Range(parseOut.roleMappings)
            /\ (RoleValidate(m) = "nil" /\ m.RoleARNLike /= Empty)
                   => m \in Range(parseOut.roleArnLikeMappings)
            /\ RoleValidate(m) \in {"both", "neither"} => parseOut.errs /= <<>>
        /\ \A m \in Range(FieldRecs(parseIn.mapUsers)) :
            /\ (UserValidate(m) = "nil" /\ m.UserARN /= Empty)
                   => m \in Range(parseOut.userMappings)
            /\ (UserValidate(m) = "nil" /\ m.UserARNLike /= Empty)
                   => m \in Range(parseOut.userArnLikeMappings)
            /\ UserValidate(m) \in {"both", "neither"} => parseOut.errs /= <<>>
        /\ parseIn.mapAccounts.kind = "list"
               => parseOut.awsAccounts = parseIn.mapAccounts.recs
        /\ "badyaml" \in {parseIn.mapUsers.kind, parseIn.mapRoles.kind,
                          parseIn.mapAccounts.kind} => parseOut.errs /= <<>>

\* C7 witness: a both-set role record precedes a well-formed one, the user
\* field is unreadable, and the well-formed record and the accounts are
\* returned with a non-empty error.
C7_Witness ==
    /\ parseOut.called
    /\ parseIn.mapRoles = ListOf(<<rBoth, rExactUpper>>)
    /\ parseIn.mapUsers = BadYaml
    /\ parseIn.mapAccounts = ListOf(<<"567">>)
    /\ parseOut.roleMappings = <<rExactUpper>>
    /\ parseOut.awsAccounts = <<"567">>
    /\ Len(parseOut.errs) = 2

\* C8: every record in the store passed validation: none sets both or
\* neither of ARN and pattern, and every stored pattern has the shape of its
\* kind (an IAM role ARN pattern for roles, an IAM user ARN pattern for users).
C8_OnlyValidatedStored ==
    /\ \A e \in Values(ms.roles) \cup Values(ms.roleArnLikes) : RoleValidate(e) = "nil"
    /\ \A e \in Values(ms.users) \cup Values(ms.userArnLikes) : UserValidate(e) = "nil"

\* The four tables of the static mapper under the names of the store.
FileTables(m) ==
    [roles |-> m.lowercaseRoleMap, users |-> m.lowercaseUserMap,
     roleArnLikes |-> m.roleArnLikeMap, userArnLikes |-> m.userArnLikeMap]

\* The identities table k of t offers for arn: its matches.
HitsOf(k, t, arn) ==
    CASE k = "role" ->
            IF arn \in DOMAIN t.roles THEN {Identity(arn, t.roles[arn])} ELSE {}
      [] k = "user" ->
            IF arn \in DOMAIN t.users THEN {Identity(arn, t.users[arn])} ELSE {}
      [] k = "roleArnLike" ->
            {Identity(arn, e) : e \in {x \in Values(t.roleArnLikes) :
                                          ArnLike(arn, x.RoleARNLike) = "yes"}}
      [] OTHER ->
            {Identity(arn, e) : e \in {x \in Values(t.userArnLikes) :
                                          ArnLike(arn, x.UserARNLike) = "yes"}}

\* Evaluating a pattern of table k against arn fails.
FailsOn(k, t, arn) ==
    CASE k = "roleArnLike" ->
            \E x \in Values(t.roleArnLikes) : ArnLike(arn, x.RoleARNLike) = "err"
      [] k = "userArnLike" ->
            \E x \in Values(t.userArnLikes) : ArnLike(arn, x.UserARNLike) = "err"
      [] OTHER -> FALSE

\* C3: on both backends, when the role table holds an exact entry for the
\* ARN and a role pattern matches it too, Map returns the exact entry's user
\* name and groups; on the live backend whenever every generation that was
\* current during the call holds both entries.
C3_ExactBeforePattern ==
    /\ (fmCall.op = "Map"
        /\ HitsOf("role", FileTables(fm), ToLower(fmCall.arg)) /= {}
        /\ HitsOf("roleArnLike", FileTables(fm), ToLower(fmCall.arg)) /= {})
           => fmCall.out \in HitsOf("role", FileTables(fm), ToLower(fmCall.arg))
    /\ \A i \in Readers :
        (rpc[i].at = "done" /\ rout[i].kind = "map"
         /\ \A g \in rgens[i] : /\ HitsOf("role", g, rarn[i]) /= {}
                                /\ HitsOf("roleArnLike", g, rarn[i]) /= {})
           => rout[i].id \in UNION {HitsOf("role", g, rarn[i]) : g \in rgens[i]}

\* C3 witness: a live Map call ran across a replacement of the store, both
\* generations hold an exact entry and a matching pattern for the ARN, with
\* different user names, and the call returned an exact entry.
C3_Witness ==
    \E i \in Readers :
        /\ rpc[i].at = "done" /\ rout[i].kind = "map"
        /\ \E g, h \in rgens[i] :
            /\ g /= h
            /\ HitsOf("role", g, rarn[i]) /= HitsOf("role", h, rarn[i])
        /\ \A g \in rgens[i] : /\ HitsOf("role", g, rarn[i]) /= {}
                               /\ HitsOf("roleArnLike", g, rarn[i]) /= {}
        /\ rout[i].id.Username \in {"r1", "r2"}

\* What the claim as written expects of Map on the tables t: the matches of
\* the first table, in the fixed order, that has one; NotMapped when none has.
FirstHit(t, arn) ==
    IF HitsOf("role", t, arn) /= {} THEN HitsOf("role", t, arn)
    ELSE IF HitsOf("user", t, arn) /= {} THEN HitsOf("user", t, arn)
    ELSE IF HitsOf("roleArnLike", t, arn) /= {} THEN HitsOf("roleArnLike", t, arn)
    ELSE IF HitsOf("userArnLike", t, arn) /= {} THEN HitsOf("userArnLike", t, arn)
    ELSE {ErrNotMapped}

\* C4 as written: on both backends Map returns the first hit in the order
\* exact role, exact user, role patterns, user patterns, and NotMapped
\* exactly when no table has a match (live: on a store that did not change
\* during the call).
C4_FirstHitOrNotMapped ==
    /\ fmCall.op = "Map" => fmCall.out \in FirstHit(FileTables(fm), ToLower(fmCall.arg))
    /\ \A i \in Readers :
        (rpc[i].at = "done" /\ rout[i].kind = "map" /\ rgens[i] = {ms})
            => rout[i].id \in FirstHit(ms, rarn[i])

\* What the static Map returns on the tables t: as FirstHit, but a pattern
\* table on which the evaluation fails ends the call with that error.
FirstHitOrError(t, arn) ==
    IF HitsOf("role", t, arn) /= {} THEN HitsOf("role", t, arn)
    ELSE IF HitsOf("user", t, arn) /= {} THEN HitsOf("user", t, arn)
    ELSE IF HitsOf("roleArnLike", t, arn) /= {} \/ FailsOn("roleArnLike", t, arn)
    THEN HitsOf("roleArnLike", t, arn)
         \cup (IF FailsOn("roleArnLike", t, arn) THEN {MapError("arnlike")} ELSE {})
    ELSE IF HitsOf("userArnLike", t, arn) /= {} \/ FailsOn("userArnLike", t, arn)
    THEN HitsOf("userArnLike", t, arn)
         \cup (IF FailsOn("userArnLike", t, arn) THEN {MapError("arnlike")} ELSE {})
    ELSE {ErrNotMapped}

\* The fixed order of the four lookups.
OrderAfter(k) ==
    CASE k = "role" -> "user"
      [] k = "user" -> "roleArnLike"
      [] k = "roleArnLike" -> "userArnLike"
      [] OTHER -> "done"

\* One lookup of a live Map call ends: it returns a match of its table, or,
\* when the table has no match or an evaluation failed, the call goes on
\* with the next table of the order, and after the last one returns NotMapped.
LiveLookupStep(i) ==
    (rpc[i].at = "cs" /\ rpc[i].k /= "account" /\ rpc'[i] /= rpc[i]) =>
        LET k == rpc[i].k
            hits == HitsOf(k, ms, rarn[i])
        IN  IF rpc'[i].at = "done" /\ rout'[i].id.err = "nil"
            THEN rout'[i].id \in hits
            ELSE /\ hits = {} \/ FailsOn(k, ms, rarn[i])
                 /\ IF OrderAfter(k) = "done"
                    THEN rpc'[i].at = "done" /\ rout'[i].id = ErrNotMapped
                    ELSE rpc'[i] = At("rlock", OrderAfter(k))

\* A live Map call begins with the exact role lookup.
LiveFirstStep(i) ==
    (rpc[i].at = "idle" /\ rpc'[i].at = "rlock" /\ rpc'[i].k /= "account")
        => rpc'[i].k = "role"

\* C4 amended: both backends try exact role, exact user, role patterns, user
\* patterns in this order and return the first hit.  The static Map returns
\* the evaluation error, not NotMapped, when evaluating a pattern against
\* the ARN fails before a match is found; the live Map counts a lookup whose
\* evaluation fails as a miss, each lookup being judged on the tables it
\* reads.  NotMapped is returned when no lookup hits and none fails (static)
\* or no lookup hits (live).
C4_FirstHitErrorOrNotMapped ==
    /\ [](fmCall.op = "Map"
            => fmCall.out \in FirstHitOrError(FileTables(fm), ToLower(fmCall.arg)))
    /\ [][\A i \in Readers : LiveLookupStep(i) /\ LiveFirstStep(i)]_vars

\* C4 witness: the static Map was asked about a string that is no ARN while
\* its role pattern table is not empty, and returned the evaluation error.
C4_Witness ==
    /\ fmCall.op = "Map"
    /\ fmCall.arg = NotAnArn
    /\ fm.roleArnLikeMap /= EmptyMap
    /\ fmCall.out = MapError("arnlike")

\* The parsed document p holds an entry with the identifying key of m: the
\* exact ARN, or the pattern of a pattern entry.
HasKey(p, kind, m) ==
    IF kind = "role"
    THEN IF m.RoleARNLike /= Empty
         THEN \E e \in Range(p.roleArnLikeMappings) : e.RoleARNLike = m.RoleARNLike
         ELSE \E e \in Range(p.roleMappings) : e.RoleARN = m.RoleARN
    ELSE IF m.UserARNLike /= Empty
         THEN \E e \in Range(p.userArnLikeMappings) : e.UserARNLike = m.UserARNLike
         ELSE \E e \in Range(p.userMappings) : e.UserARN = m.UserARN

\* C9: a call of AddRole / AddUser that read a (well-formed) document with
\* an entry of the same identifying key, exact ARN or pattern, ends with the
\* duplicate-entry error and has written nothing.
C9_DuplicateRejected ==
    \A c \in Clients :
        (/\ cli[c].pc = "done"
         /\ cli[c].read /= EmptyData
         /\ ParseMap(cli[c].read).errs = <<>>
         /\ HasKey(ParseMap(cli[c].read), cli[c].kind, cli[c].m))
            => cli[c].err = "duplicate" /\ ~cli[c].wrote

\* C10: add() runs the read-modify-write at most DefaultRetry.Steps times;
\* every write is submitted with the version of a read made after the last
\* conflict; the call ends with the conflict error exactly when that many
\* attempts ended in a conflict, and then it has written nothing.
C10_RetryFromFreshRead ==
    \A c \in Clients :
        /\ cli[c].attempts <= DefaultRetrySteps
        /\ cli[c].conflicts <= cli[c].attempts
        /\ cli[c].pc = "update" =>
              /\ cli[c].cm.version >= cli[c].seen
              /\ cli[c].conflicts = cli[c].attempts - 1
        /\ cli[c].pc = "get" => cli[c].conflicts = cli[c].attempts
        /\ cli[c].pc = "done" =>
              (cli[c].err = "conflict" <=> cli[c].conflicts = DefaultRetrySteps)
        /\ (cli[c].pc = "done" /\ cli[c].err = "conflict") =>
              cli[c].attempts = DefaultRetrySteps /\ ~cli[c].wrote

\* C10 witness: five attempts, each begun with a read, ended in a conflict
\* and the call returned the conflict error.
C10_Witness ==
    \E c \in Clients :
        /\ cli[c].pc = "done"
        /\ cli[c].err = "conflict"
        /\ cli[c].attempts = DefaultRetrySteps
        /\ cli[c].conflicts = DefaultRetrySteps
        /\ cli[c].cm.version > 1

\* Everything a document holds: its records of the four kinds and its
\* account ids.
EntriesOf(data) ==
    LET p == ParseMap(data)
    IN  [users |-> Range(p.userMappings), userArnLikes |-> Range(p.userArnLikeMappings),
         roles |-> Range(p.roleMappings), roleArnLikes |-> Range(p.roleArnLikeMappings),
         accounts |-> Range(p.awsAccounts)]

\* The entries of a are entries of b.
Within(a, b) ==
    /\ a.users \subseteq b.users /\ a.userArnLikes \subseteq b.userArnLikes
    /\ a.roles \subseteq b.roles /\ a.roleArnLikes \subseteq b.roleArnLikes
    /\ a.accounts \subseteq b.accounts

\* The entry m of AddRole / AddUser is in the document.
HasEntry(data, kind, m) ==
    IF kind = "role"
    THEN m \in EntriesOf(data).roles \cup EntriesOf(data).roleArnLikes
    ELSE m \in EntriesOf(data).users \cup EntriesOf(data).userArnLikes

\* The call of client c has ended with success.
Succeeded(c) == cli[c].pc = "done" /\ cli[c].err = "nil" /\ cli[c].wrote

\* C11: when two clients have run AddRole / AddUser with different keys at
\* the same time and both calls succeeded, the document holds both new
\* entries and every entry of the documents the two calls read.
C11_NoLostUpdate ==
    \A c, d \in Clients :
        (c /= d /\ Succeeded(c) /\ Succeeded(d)
         /\ <<cli[c].kind, cli[c].m>> /= <<cli[d].kind, cli[d].m>>)
            => /\ HasEntry(doc.data, cli[c].kind, cli[c].m)
               /\ HasEntry(doc.data, cli[d].kind, cli[d].m)
               /\ Within(EntriesOf(cli[c].read), EntriesOf(doc.data))
               /\ Within(EntriesOf(cli[d].read), EntriesOf(doc.data))

\* C12: a successful AddRole / AddUser has written a document whose parsed
\* content is the content of the document it read plus the new entry: the
\* new entry is there, and every exact role, exact user, pattern entry and
\* account id of the document read is still there, and nothing else.
C12_AddPreservesContent ==
    \A c \in Clients :
        Succeeded(c) =>
            LET before == EntriesOf(cli[c].read)
                after == EntriesOf(cli[c].cm.data)
            IN  /\ HasEntry(cli[c].cm.data, cli[c].kind, cli[c].m)
                /\ Within(before, after)
                /\ after.accounts = before.accounts
                /\ after.users \cup after.userArnLikes \cup after.roles
                      \cup after.roleArnLikes
                   = before.users \cup before.userArnLikes \cup before.roles
                      \cup before.roleArnLikes \cup {cli[c].m}

\* What the store should hold for the external document: the tables of its
\* Data, nothing when there is no document.
ContentOf(d) ==
    IF d.present THEN GenerationOf(Ev("Added", "aws-auth", d.data)) ELSE EmptyStore

\* The document has no record and no field ParseMap complains about, so all
\* of its content is valid content.
WellFormed(d) == ~d.present \/ ParseMap(d.data).errs = <<>>

\* The watcher w waits for the next event of a stream that is up and has
\* delivered everything.
Waiting(w) == wpc[w] = "range" /\ stream[w].open /\ stream[w].q = <<>>

\* Nothing is in flight: Start has been called, nobody has asked the watcher
\* to stop, and every watcher goroutine waits on a connected, drained stream.
Settled ==
    /\ startsLeft = 0 /\ ~stopCh
    /\ \A w \in Watchers : wpc[w] /= "idle" => Waiting(w)

\* C13: once the document has stopped changing and the watcher is connected
\* and has processed all it was sent, the store equals the content of the
\* document, all-empty when the document was deleted, also when the last
\* change or the delete happened between two watch streams.  (In a settled
\* state nothing further arrives unless the document changes again, so the
\* store can only become equal to the document by being equal already.)
C13_SettledStoreIsDocument ==
    (Settled /\ WellFormed(doc)) => ms = ContentOf(doc)

\* C14: after stopCh is closed a watcher goroutine that has not returned can
\* always take a step of its own; it never depends on a further event or on
\* the end of its stream to get to the select that sees the stop.
C14_StopNeedsNoEvent ==
    \A w \in Watchers :
        (stopCh /\ wpc[w] \notin {"idle", "stopped"}) => ENABLED Watcher(w)

\* C15: a watcher goroutine has returned only if stopCh was closed, and it
\* returns from the select only; while stopCh is open a started goroutine
\* is never at an end: it can take a step, after a failed Watch request, an
\* Error event, a parse error or a closed stream alike, or it waits for the
\* next event of an open stream.
C15_OnlyStopEndsLoop ==
    /\ [](\A w \in Watchers :
            /\ wpc[w] = "stopped" => stopCh
            /\ (wpc[w] \notin {"idle", "stopped"} /\ ~stopCh)
                   => \/ Waiting(w)
                      \/ CanRecv(w)
                      \/ ENABLED (WatchOk(w) \/ Wake(w) \/ ChanClosed(w) \/ SaveLock(w)
                                  \/ SaveAcquire(w) \/ SaveStep(w) \/ SaveUnlock(w)))
    /\ [][\A w \in Watchers :
            (wpc'[w] = "stopped" /\ wpc[w] /= "stopped")
                => (wpc[w] = "select" /\ stopCh)]_vars

\* C15 witness: the goroutine is at the select once more, stopCh open, after
\* Watch requests failed, its stream was closed, and the last things it
\* processed were a document with parse errors and an Error event.
C15_Witness ==
    \E w \in Watchers :
        /\ wpc[w] = "select" /\ ~stopCh
        /\ watchFailures > 0
        /\ r[w].type = "Error" /\ ~stream[w].open
        /\ applied.type \in {"Added", "Modified"}
        /\ ParseMap(applied.data).errs /= <<>>

\* The watcher goroutines that have been started and have not returned.
Running == {w \in Watchers : wpc[w] \notin {"idle", "stopped"}}

\* C16: whatever the number of Start calls, at most one watcher goroutine
\* runs, and so at most one is at or inside saveMap.
C16_OneWatcher ==
    /\ Cardinality(Running) <= 1
    /\ Cardinality({w \in Watchers :
                       wpc[w] \notin {"idle", "stopped", "select", "sleep", "range"}}) <= 1

\* C17: the failure counter starts at zero, goes up by exactly one in the step in which a
\* Watch request fails (the goroutine goes from the select to the sleep)
\* and changes in no other step, not when a stream ends, not on an Error
\* event, not on a parse error.
C17_CountsFailedWatches ==
    /\ watchFailures = 0
    /\ [][/\ (\E w \in Watchers : wpc[w] = "select" /\ wpc'[w] = "sleep")
               => watchFailures' = watchFailures + 1
          /\ watchFailures' /= watchFailures
               => (\E w \in Watchers : wpc[w] = "select" /\ wpc'[w] = "sleep")]_vars

\* C17 witness: two Watch requests have failed and been counted; since then
\* the goroutine has processed a document with parse errors and seen its
\* stream end, and the counter is still two.
C17_Witness ==
    \E w \in Watchers :
        /\ watchFailures = 2
        /\ wpc[w] = "range" /\ ~stream[w].open /\ stream[w].q = <<>>
        /\ r[w] = applied
        /\ ParseMap(applied.data).errs /= <<>>

\* C18: a watcher whose stream is closed and drained can go on, stopCh open
\* or not, and the one step it takes leads to the select, where, stopCh
\* open, a new Watch request is what comes next; the step leaves the store,
\* the lock and the counter alone.  The store is changed by the steps of
\* saveMap only.
C18_StreamEndReconnects ==
    /\ [](\A w \in Watchers :
            /\ (wpc[w] = "range" /\ ~stream[w].open /\ stream[w].q = <<>>)
                   => ENABLED ChanClosed(w)
            /\ (wpc[w] = "select" /\ ~stopCh)
                   => (ENABLED WatchOk(w) /\ ~ENABLED SelectStop(w)))
    /\ [][\A w \in Watchers :
            /\ (wpc[w] = "range" /\ ~stream[w].open /\ stream[w].q = <<>>
                 /\ wpc'[w] /= wpc[w])
                   => (wpc'[w] = "select" /\ ms' = ms /\ mutex' = mutex
                       /\ watchFailures' = watchFailures /\ applied' = applied)
            /\ (wpc[w] = "range" /\ wpc'[w] = "select")
                   => (~stream[w].open /\ stream[w].q = <<>>)
            /\ ms' /= ms => \E v \in Watchers :
                   wpc[v] \in {"clear", "users", "userArnLikes", "roles",
                               "roleArnLikes", "accounts"}]_vars

\* C18 witness: the stream has ended, the goroutine is back at the select
\* with stopCh open, and the store still holds the entries of the last event.
C18_Witness ==
    \E w \in Watchers :
        /\ wpc[w] = "select" /\ ~stopCh /\ ~stream[w].open
        /\ r[w].type \in {"Added", "Modified"} /\ r[w] = applied
        /\ ms = GenerationOf(applied) /\ ms /= EmptyStore

\* The two identifying fields of the record Validate was called on, and the
\* resource prefix its kind asks of a pattern.
ValArn == IF valIn.kind = "role" THEN valIn.m.RoleARN ELSE valIn.m.UserARN
ValLike == IF valIn.kind = "role" THEN valIn.m.RoleARNLike ELSE valIn.m.UserARNLike
ValPrefix == IF valIn.kind = "role" THEN "role/" ELSE "user/"

\* C19: Validate returns nil for every record that sets exactly one of ARN
\* and pattern and whose pattern, if set, is an ARN pattern of the record's
\* principal type; it returns an error for every record that sets neither
\* or both, and for every record whose pattern is of the other principal
\* type.
C19_ValidateExactlyOne ==
    valOut /= "none" =>
        LET one == (ValArn = Empty) /= (ValLike = Empty)
        IN  /\ (one /\ (ValLike = Empty \/ Head(ValLike) = ValPrefix)) => valOut = "nil"
            /\ ~one => valOut /= "nil"
            /\ (ValLike /= Empty /\ Head(ValLike) \in {"role/", "user/"} \ {ValPrefix})
                   => valOut /= "nil"

\* C19 witness: Validate was called on a role record whose only identifying
\* field is a pattern for IAM users, and returned the shape error.
C19_Witness ==
    /\ valIn.kind = "role"
    /\ valIn.m.RoleARN = Empty /\ valIn.m.RoleARNLike = UserStar
    /\ valOut = "shape"

\* What is wrong with an entry of the static configuration, "nil" when
\* nothing is: it sets neither or both fields, its pattern is malformed or
\* of the wrong shape, or its ARN cannot be canonicalized.
RoleFault(m) ==
    IF RoleValidate(m) /= "nil" THEN RoleValidate(m)
    ELSE IF m.RoleARN /= Empty /\ ~ArnParses(m.RoleARN) THEN "canonicalize"
    ELSE "nil"
UserFault(m) ==
    IF UserValidate(m) /= "nil" THEN UserValidate(m)
    ELSE IF m.UserARN /= Empty /\ ~ArnParses(m.UserARN) THEN "canonicalize"
    ELSE "nil"

\* The fault of the first faulty entry of the list, "nil" when there is none.
FirstFault(list, Fault(_)) ==
    IF \A j \in 1..Len(list) : Fault(list[j]) = "nil" THEN "nil"
    ELSE Fault(list[CHOOSE j \in 1..Len(list) :
                        /\ Fault(list[j]) /= "nil"
                        /\ \A h \in 1..(j - 1) : Fault(list[h]) = "nil"])

\* C20: NewFileMapper fails, with the error of the first faulty entry (roles
\* before users) and without a mapper, whenever a role or user entry of the
\* configuration sets neither or both fields, has an ARN that cannot be
\* canonicalized or a pattern of the wrong shape; no call reaches a failed
\* mapper; and a mapper that is returned holds every entry and every
\* account of the configuration.
C20_StaticLoadFailFast ==
    fpc /= "new" =>
        LET roleFault == FirstFault(cfg.RoleMappings, RoleFault)
            userFault == FirstFault(cfg.UserMappings, UserFault)
            fault == IF roleFault /= "nil" THEN roleFault ELSE userFault
        IN  /\ fm.err = fault
            /\ fpc = (IF fault = "nil" THEN "ready" ELSE "failed")
            /\ fpc = "failed" => (fm = NilMapper(fault) /\ fmCall = NoCall)
            /\ fpc = "ready" =>
                  /\ \A m \in Range(cfg.RoleMappings) :
                        IF m.RoleARN /= Empty
                        THEN ToLower(m.RoleARN) \in DOMAIN fm.lowercaseRoleMap
                        ELSE m.RoleARNLike \in DOMAIN fm.roleArnLikeMap
                  /\ \A m \in Range(cfg.UserMappings) :
                        IF m.UserARN /= Empty
                        THEN ToLower(m.UserARN) \in DOMAIN fm.lowercaseUserMap
                        ELSE m.UserARNLike \in DOMAIN fm.userArnLikeMap
                  /\ Range(cfg.AutoMappedAWSAccounts) = fm.accountMap

\* C20 witness: the configuration has a well-formed role entry followed by
\* one with neither field, and well-formed users; the construction failed
\* and left no mapper holding the first entry.
C20_Witness ==
    /\ fpc = "failed"
    /\ cfg.RoleMappings = <<rExactUpper, rNeither>>
    /\ cfg.UserMappings = <<uExact>>
    /\ fm.err = "neither"
    /\ fm.lowercaseRoleMap = EmptyMap /\ fm.lowercaseUserMap = EmptyMap

\* The account ids of the document of the last event saveMap completed for.
AppliedAccounts ==
    IF applied.type \in {"Added", "Modified"}
    THEN Range(ParseMap(applied.data).awsAccounts)
    ELSE {}

\* C21: the account check is a membership test and changes nothing.  On the
\* static backend IsAccountAllowed(id) is true exactly when id is one of the
\* configured AutoMappedAWSAccounts; on the live backend AWSAccount(id) is
\* true exactly when id is in the account list of the document of the last
\* event the watcher has processed; the tables are the same after the call.
C21_AccountIsMembership ==
    /\ [](fmCall.op = "IsAccountAllowed" =>
            fmCall.allowed = (fmCall.arg[1] \in Range(cfg.AutoMappedAWSAccounts)))
    /\ [][/\ fmCall'.op = "IsAccountAllowed" => fm' = fm
          /\ \A i \in Readers :
                (rpc[i] = At("cs", "account") /\ rpc'[i].at = "done") =>
                    /\ rout'[i].kind = "account"
                    /\ rout'[i].allowed = (rarn[i][1] \in AppliedAccounts)
                    /\ ms' = ms]_vars

\* C21 witness: after the document was replaced by one that lists the
\* account, the check of that account on the live backend answered true.
C21_Witness ==
    \E i \in Readers :
        /\ rpc[i].at = "done" /\ rout[i].kind = "account"
        /\ applied.type = "Modified"
        /\ rarn[i][1] \in AppliedAccounts
        /\ rout[i].allowed

\* The exact records and the pattern records of a list, in their order.
ExactUsers(list) == SelectSeq(list, LAMBDA m : m.UserARN /= Empty)
LikeUsers(list) == SelectSeq(list, LAMBDA m : m.UserARNLike /= Empty)
ExactRoles(list) == SelectSeq(list, LAMBDA m : m.RoleARN /= Empty)
LikeRoles(list) == SelectSeq(list, LAMBDA m : m.RoleARNLike /= Empty)

\* Every record of the lists sets exactly one of ARN and pattern.
OneField(users, roles) ==
    /\ \A m \in Range(users) : (m.UserARN = Empty) /= (m.UserARNLike = Empty)
    /\ \A m \in Range(roles) : (m.RoleARN = Empty) /= (m.RoleARNLike = Empty)

\* ParseMap's result p holds the records of users and roles and the account
\* ids of accounts: each record once, exact and pattern records apart, in
\* the order of the lists; its error is nil unless a pattern has the wrong
\* shape.
Returns(p, users, roles, accounts) ==
    /\ p.userMappings = ExactUsers(users)
    /\ p.userArnLikeMappings = LikeUsers(users)
    /\ p.roleMappings = ExactRoles(roles)
    /\ p.roleArnLikeMappings = LikeRoles(roles)
    /\ p.awsAccounts = accounts
    /\ p.errs = <<>> <=> /\ \A m \in Range(users) : UserValidate(m) = "nil"
                         /\ \A m \in Range(roles) : RoleValidate(m) = "nil"

\* The document is made of lists only, of records with exactly one
\* identifying field.
ValidDocument(d) ==
    /\ d.mapUsers.kind \in {"absent", "list"}
    /\ d.mapRoles.kind \in {"absent", "list"}
    /\ d.mapAccounts.kind \in {"absent", "list"}
    /\ OneField(FieldRecs(d.mapUsers), FieldRecs(d.mapRoles))

ZeroOf(k) == IF k \in {"role", "roleArnLike"} THEN NoRole ELSE NoUser
MissOf(k) ==
    CASE k = "role" -> "RoleNotFound"
      [] k = "user" -> "UserNotFound"
      [] k = "roleArnLike" -> "RoleARNLikeNotMatched"
      [] OTHER -> "UserARNLikeNotMatched"

\* The stored records that lookup k of arn on the store s can return: the
\* entry under the key arn, the entries whose pattern matches arn.
StoredHits(k, s, arn) ==
    CASE k = "role" -> {s.roles[a] : a \in {arn} \cap DOMAIN s.roles}
      [] k = "user" -> {s.users[a] : a \in {arn} \cap DOMAIN s.users}
      [] k = "roleArnLike" ->
            {x \in Values(s.roleArnLikes) : ArnLike(arn, x.RoleARNLike) = "yes"}
      [] OTHER -> {x \in Values(s.userArnLikes) : ArnLike(arn, x.UserARNLike) = "yes"}

\* The evaluation of some stored pattern against arn fails.
EvalFails(k, s, arn) ==
    CASE k = "roleArnLike" ->
            \E x \in Values(s.roleArnLikes) : ArnLike(arn, x.RoleARNLike) = "err"
      [] k = "userArnLike" ->
            \E x \in Values(s.userArnLikes) : ArnLike(arn, x.UserARNLike) = "err"
      [] OTHER -> FALSE

\* C23 as stated: a single lookup returns a stored record that answers the
\* ARN and no error when there is one (a hit), and otherwise (a miss) the
\* empty record with the miss error of its own kind.
C23_HitOrOwnMiss ==
    [][\A i \in Readers :
          (rpc[i].at = "cs" /\ rpc[i].k /= "account" /\ rpc'[i] /= rpc[i]) =>
              LET got == rout'[i].got
                  hits == StoredHits(rpc[i].k, ms, rarn[i])
              IN  IF hits /= {}
                  THEN got.err = "nil" /\ got.rec \in hits
                  ELSE got.err = MissOf(rpc[i].k) /\ got.rec = ZeroOf(rpc[i].k)]_vars

\* C23, amended: a single lookup returns a stored record that answers the
\* ARN and no error, or the empty record with an error.  The error is the
\* miss error of the lookup's own kind, never that of another kind, when no
\* stored entry answers the ARN and every pattern could be evaluated; it is
\* the error of the pattern evaluation when that fails, which only the two
\* pattern lookups can report.  When an entry answers the ARN and every
\* evaluation succeeds the lookup is a hit.
C23_HitOwnMissOrEvalError ==
    [][\A i \in Readers :
          (rpc[i].at = "cs" /\ rpc[i].k /= "account" /\ rpc'[i] /= rpc[i]) =>
              LET k == rpc[i].k
                  got == rout'[i].got
                  hits == StoredHits(k, ms, rarn[i])
                  fails == EvalFails(k, ms, rarn[i])
              IN  /\ got.k = k
                  /\ got.err \in {"nil", MissOf(k), "arnlike"}
                  /\ got.err = "nil" => got.rec \in hits
                  /\ got.err /= "nil" => got.rec = ZeroOf(k)
                  /\ got.err = MissOf(k) <=> (hits = {} /\ ~fails)
                  /\ got.err = "arnlike" => fails
                  /\ (hits /= {} /\ ~fails) => got.err = "nil"
                  /\ ms' = ms]_vars

\* C23 witness: the role pattern lookup was asked about a string that is no
\* ARN on a store that holds a role pattern, and returned the empty record
\* with the error of the evaluation.
C23_Witness ==
    \E i \in Readers :
        /\ rarn[i] = ToLower(NotAnArn)
        /\ rout[i].got = [k |-> "roleArnLike", rec |-> NoRole, err |-> "arnlike"]
        /\ snapshot.roleArnLikes /= EmptyMap

Ignored(ev) ==
    \/ ev.type = "Error"
    \/ ev.type \in {"Added", "Modified"} /\ ev.name /= "aws-auth"
    \/ ev.type \notin {"Error", "Deleted", "Added", "Modified"}

\* C25: when the watcher takes a watch Error event, an Added or Modified
\* event whose object is not named aws-auth, or an event of another type
\* from its stream, the four tables and the account set stay as they are,
\* saveMap is not called, and the watcher stays in the range loop on the
\* same stream, whose remaining events are untouched.
C25_IgnoredEventsChangeNothing ==
    [][\A w \in Watchers :
          (CanRecv(w) /\ Len(stream'[w].q) < Len(stream[w].q)
              /\ Ignored(Head(stream[w].q))) =>
                /\ ms' = ms /\ snapshot' = snapshot /\ applied' = applied
                /\ mutex' = mutex /\ args' = args
                /\ watchFailures' = watchFailures
                /\ wpc'[w] = "range"
                /\ stream'[w] = [stream[w] EXCEPT !.q = Tail(@)]]_vars

\* C25 witness: on a filled store the watcher has taken an Added event for
\* an object of another name; it is in the range loop of its open stream
\* and the store is still that of the last aws-auth event.
C25_Witness ==
    \E w \in Watchers :
        /\ r[w].type = "Added" /\ r[w].name = "other"
        /\ wpc[w] = "range" /\ stream[w].open
        /\ applied.type \in {"Added", "Modified"} /\ applied /= r[w]
        /\ ms = GenerationOf(applied) /\ ms /= EmptyStore

\* C26: malformed input comes back as an error value of its own.  On the
\* static backend a Map call whose candidate is no ARN and has to be
\* evaluated against a pattern returns an error that is not NotMapped; on
\* the live backend the Map call in which the evaluation of a pattern fails
\* returns with an error that is not NotMapped.
C26_MalformedIsNotAMiss ==
    /\ [](LET arn == ToLower(fmCall.arg)
          IN  (/\ fmCall.op = "Map"
               /\ ~ArnParses(arn)
               /\ arn \notin DOMAIN fm.lowercaseRoleMap \cup DOMAIN fm.lowercaseUserMap
               /\ fm.roleArnLikeMap /= EmptyMap \/ fm.userArnLikeMap /= EmptyMap)
                  => fmCall.out.err \notin {"nil", "ErrNotMapped"})
    /\ [][\A i \in Readers :
            (rpc[i].at = "cs" /\ rpc'[i] /= rpc[i] /\ rout'[i].got.err = "arnlike") =>
                /\ rpc'[i].at = "done"
                /\ rout'[i].id.err \notin {"nil", "ErrNotMapped"}]_vars

\* The records of a field that set the ARN only, and those that set the
\* pattern only, in the order of the field.
OnlyArnUsers(f) ==
    SelectSeq(f.recs, LAMBDA m : m.UserARN /= Empty /\ m.UserARNLike = Empty)
OnlyLikeUsers(f) ==
    SelectSeq(f.recs, LAMBDA m : m.UserARN = Empty /\ m.UserARNLike /= Empty)
OnlyArnRoles(f) ==
    SelectSeq(f.recs, LAMBDA m : m.RoleARN /= Empty /\ m.RoleARNLike = Empty)
OnlyLikeRoles(f) ==
    SelectSeq(f.recs, LAMBDA m : m.RoleARN = Empty /\ m.RoleARNLike /= Empty)

\* C27: the three fields of the document are optional and are parsed
\* independently of each other.  What ParseMap returns for a field depends
\* on that field alone: nothing for a missing field, the records resp. the
\* account ids of a field that is there, whether or not another field is
\* missing or fails to parse.  A missing field is no error: the error is
\* nil exactly when every field is either missing or a list without a
\* faulty record.
C27_FieldsAreOptional ==
    parseOut.called =>
        LET u == parseIn.mapUsers
            ro == parseIn.mapRoles
            a == parseIn.mapAccounts
        IN  /\ parseOut.userMappings =
                   (IF u.kind \in {"list", "typeerr"} THEN OnlyArnUsers(u) ELSE <<>>)
            /\ parseOut.userArnLikeMappings =
                   (IF u.kind \in {"list", "typeerr"} THEN OnlyLikeUsers(u) ELSE <<>>)
            /\ parseOut.roleMappings =
                   (IF ro.kind \in {"list", "typeerr"} THEN OnlyArnRoles(ro) ELSE <<>>)
            /\ parseOut.roleArnLikeMappings =
                   (IF ro.kind \in {"list", "typeerr"} THEN OnlyLikeRoles(ro) ELSE <<>>)
            /\ parseOut.awsAccounts = (IF a.kind = "list" THEN a.recs ELSE <<>>)
            /\ parseOut.errs = <<>> <=>
                   /\ u.kind = "absent" \/
                          (u.kind = "list" /\ \A m \in Range(u.recs) : UserValidate(m) = "nil")
                   /\ ro.kind = "absent" \/
                          (ro.kind = "list" /\ \A m \in Range(ro.recs) : RoleValidate(m) = "nil")
                   /\ a.kind \in {"absent", "list"}

\* C27 witness: the document has no mapUsers, a mapRoles that is no YAML and
\* two accounts; ParseMap returned the accounts, no users, no roles and the
\* one error of mapRoles.
C27_Witness ==
    /\ parseOut.called
    /\ parseIn = DataOf(Absent, BadYaml, ListOf(<<"123", "345">>))
    /\ parseOut.awsAccounts = <<"123", "345">>
    /\ parseOut.userMappings = <<>> /\ parseOut.userArnLikeMappings = <<>>
    /\ parseOut.roleMappings = <<>> /\ parseOut.roleArnLikeMappings = <<>>
    /\ Len(parseOut.errs) = 1

\* The key TestNewFileMapper expects an entry under: the canonical
\* lower-case ARN of an exact entry, the pattern string of an ARN-like one.
ExpectedRoleKey(m) == IF m.RoleARN /= Empty THEN ToLower(m.RoleARN) ELSE m.RoleARNLike
ExpectedUserKey(m) == IF m.UserARN /= Empty THEN ToLower(m.UserARN) ELSE m.UserARNLike

\* C28: the mapper NewFileMapper builds from a valid configuration is the
\* expected struct: lowercaseRoleMap holds every role entry, the exact ones
\* under their canonical lower-case ARN and the ARN-like ones under their
\* pattern string, lowercaseUserMap likewise holds every user entry,
\* accountMap holds exactly the configured account ids, and no other table
\* is populated.
C28_BuiltMapperIsExpected ==
    fpc = "ready" =>
        /\ fm.lowercaseRoleMap = TableBy(cfg.RoleMappings, ExpectedRoleKey)
        /\ fm.lowercaseUserMap = TableBy(cfg.UserMappings, ExpectedUserKey)
        /\ fm.accountMap = Range(cfg.AutoMappedAWSAccounts)
        /\ fm.roleArnLikeMap = EmptyMap /\ fm.userArnLikeMap = EmptyMap

\* The exact role entries and the exact user entries of the configuration
\* whose ARN has the canonical form key.
RolesOf(key) ==
    {m \in Range(cfg.RoleMappings) : m.RoleARN /= Empty /\ Canonicalize(m.RoleARN).arn = key}
UsersOf(key) ==
    {m \in Range(cfg.UserMappings) : m.UserARN /= Empty /\ Canonicalize(m.UserARN).arn = key}

\* C29: Canonicalize applied to a canonical ARN returns it unchanged, and
\* the key under which NewFileMapper stores an exact entry is the key Map
\* looks up: every exact entry of a mapper that was built is stored under
\* the canonical form of its ARN, and a Map call with an ARN of that
\* canonical form returns the identity of an exact entry with that ARN
\* (a role entry before a user entry).
C29_CanonicalKeyIsLookupKey ==
    /\ \A a \in Arns :
          Canonicalize(a).err = "nil" => Canonicalize(Canonicalize(a).arn) = Canonicalize(a)
    /\ fpc = "ready" =>
          /\ \A m \in Range(cfg.RoleMappings) :
                m.RoleARN /= Empty =>
                    /\ Canonicalize(m.RoleARN).err = "nil"
                    /\ Canonicalize(m.RoleARN).arn \in DOMAIN fm.lowercaseRoleMap
          /\ \A m \in Range(cfg.UserMappings) :
                m.UserARN /= Empty =>
                    /\ Canonicalize(m.UserARN).err = "nil"
                    /\ Canonicalize(m.UserARN).arn \in DOMAIN fm.lowercaseUserMap
          /\ \A key \in DOMAIN fm.lowercaseRoleMap : fm.lowercaseRoleMap[key] \in RolesOf(key)
          /\ \A key \in DOMAIN fm.lowercaseUserMap : fm.lowercaseUserMap[key] \in UsersOf(key)
    /\ (fmCall.op = "Map" /\ Canonicalize(fmCall.arg).err = "nil") =>
          LET key == Canonicalize(fmCall.arg).arn
          IN  /\ RolesOf(key) /= {} =>
                    \E m \in RolesOf(key) : fmCall.out = Identity(key, m)
              /\ (RolesOf(key) = {} /\ UsersOf(key) /= {}) =>
                    \E m \in UsersOf(key) : fmCall.out = Identity(key, m)

\* C29 witness: the configuration has an exact role entry written with an
\* upper-case letter; Map was called with the canonical form of that ARN and
\* returned the entry's user name.
C29_Witness ==
    /\ fpc = "ready"
    /\ rExactUpper \in Range(cfg.RoleMappings)
    /\ RoleLower \in DOMAIN fm.lowercaseRoleMap /\ RoleUpper \notin DOMAIN fm.lowercaseRoleMap
    /\ fmCall.op = "Map" /\ fmCall.arg = RoleLower
    /\ fmCall.out = Identity(RoleLower, rExactUpper)

\* The names of the four tables.
TableKinds == {"role", "user", "roleArnLike", "userArnLike"}

\* C30: Map does not depend on the letter case of its argument.  On the
\* static backend the result of Map(a) is a result of Map(lower(a)); on the
\* live backend the result of a Map(a) call during which the store was not
\* replaced is a result of Map(lower(a)) on that store.  On both, a
\* successful result carries lower(a) as IdentityARN and the user name and
\* groups of a stored record that lower(a) matches.
C30_MapIgnoresLetterCase ==
    /\ fmCall.op = "Map" =>
          /\ fmCall.out \in FileMap(fm, ToLower(fmCall.arg))
          /\ fmCall.out.err = "nil" =>
                \E k \in TableKinds :
                    fmCall.out \in HitsOf(k, FileTables(fm), ToLower(fmCall.arg))
    /\ \A i \in Readers :
          (rpc[i].at = "done" /\ rout[i].kind = "map") =>
              /\ Cardinality(rgens[i]) = 1 =>
                    rout[i].id \in UNION {MapOn(g, ToLower(rout[i].arg)) : g \in rgens[i]}
              /\ rout[i].id.err = "nil" =>
                    \E g \in rgens[i] : \E k \in TableKinds :
                        rout[i].id \in HitsOf(k, g, ToLower(rout[i].arg))

\* C30 witness: a live Map call with an upper-case letter in its argument
\* returned the exact entry stored for that role, with the lower-case ARN as
\* IdentityARN.
C30_Witness ==
    \E i \in Readers :
        /\ rpc[i].at = "done" /\ rout[i].kind = "map"
        /\ rout[i].arg = RoleUpper
        /\ rout[i].id = Identity(RoleLower, rExactUpper)

\* C31: in the live store an exact entry is kept under the lower-cased form
\* of its configured ARN.  Once saveMap has completed for a document, every
\* exact entry of the document is found by the lookup with its lower-cased
\* ARN, and the record that lookup returns is a record of the document, with
\* its ARN as configured; a Map call that found an exact entry got a record
\* whose configured ARN lower-cases to the ARN asked for.
C31_ExactKeyIsLowerCase ==
    /\ (NoSaveRunning /\ applied.type \in {"Added", "Modified"}) =>
          LET p == ParseMap(applied.data) IN
          /\ \A m \in Range(p.roleMappings) :
                LET o == RoleMapping(ms, ToLower(m.RoleARN))
                IN  /\ o.err = "nil"
                    /\ o.rec \in Range(p.roleMappings)
                    /\ ToLower(o.rec.RoleARN) = ToLower(m.RoleARN)
          /\ \A m \in Range(p.userMappings) :
                LET o == UserMapping(ms, ToLower(m.UserARN))
                IN  /\ o.err = "nil"
                    /\ o.rec \in Range(p.userMappings)
                    /\ ToLower(o.rec.UserARN) = ToLower(m.UserARN)
    /\ \A i \in Readers :
          (rout[i].got.err = "nil" /\ rout[i].got.k = "role") =>
              ToLower(rout[i].got.rec.RoleARN) = rarn[i]
    /\ \A i \in Readers :
          (rout[i].got.err = "nil" /\ rout[i].got.k = "user") =>
              ToLower(rout[i].got.rec.UserARN) = rarn[i]

\* C31 witness: the store holds the entry configured as role/A, and a Map
\* call found it with role/a: the record returned has the ARN role/A.
C31_Witness ==
    \E i \in Readers :
        /\ rpc[i].at = "done"
        /\ rarn[i] = RoleLower
        /\ rout[i].got = [k |-> "role", rec |-> rExactUpper, err |-> "nil"]
        /\ rExactUpper.RoleARN = RoleUpper /\ RoleUpper /= RoleLower
        /\ NoSaveRunning /\ ms.roles[RoleLower] = rExactUpper

\* No two patterns of one table of the static mapper match arn.
NoOverlap(arn) ==
    /\ Cardinality(HitsOf("roleArnLike", FileTables(fm), arn)) <= 1
    /\ Cardinality(HitsOf("userArnLike", FileTables(fm), arn)) <= 1

\* C32: loaded with the same valid records, patterns not overlapping, and
\* with no saveMap running, the static and the live mapper return the same
\* result for Map(a) for every ARN a (a string with the shape of an ARN, in
\* either letter case) and the same answer for IsAccountAllowed with the
\* same account.
C32_BackendsAgree ==
    \A i \in Readers :
        /\ (fpc = "ready" /\ fmCall.op = "Map" /\ rout[i].kind = "map"
            /\ ArnParses(fmCall.arg)
            /\ NoOverlap(ToLower(fmCall.arg)))
               => rout[i].id = fmCall.out
        /\ (fpc = "ready" /\ fmCall.op = "IsAccountAllowed" /\ rout[i].kind = "account")
               => rout[i].allowed = fmCall.allowed

\* C32 witness: the records hold an exact user entry and a role pattern that
\* both answer role/a; both mappers were asked for role/A and both returned
\* the user entry.
C32_Witness ==
    \E i \in Readers :
        /\ fpc = "ready"
        /\ uSameArn \in Range(cfg.UserMappings) /\ rPattern \in Range(cfg.RoleMappings)
        /\ RoleLower \notin DOMAIN fm.lowercaseRoleMap
        /\ fmCall.op = "Map" /\ fmCall.arg = RoleUpper
        /\ fmCall.out = Identity(RoleLower, uSameArn)
        /\ rout[i].kind = "map" /\ rout[i].id = fmCall.out

\* The errors of fn that are no version conflict: the read failed, the
\* document read has an invalid record, the entry is a duplicate.
PlainErrors == {"notfound", "parse", "duplicate"}

\* C33: add() runs fn again after a version conflict only.  Every run of fn
\* but the first follows a run that ended in a conflict, and a run that ends
\* with a failed read, a parse error or a duplicate-entry rejection ends the
\* call with that error: the call has then made one attempt more than it met
\* conflicts and has written nothing, and the step that found the error left
\* the external document as it was.
C33_OnlyConflictRetried ==
    /\ [](\A c \in Clients :
            /\ cli[c].pc = "get" => cli[c].attempts = cli[c].conflicts
            /\ (cli[c].pc /= "idle" /\ cli[c].err \in PlainErrors) =>
                  /\ cli[c].pc = "done"
                  /\ cli[c].attempts = cli[c].conflicts + 1
                  /\ ~cli[c].wrote)
    /\ [][\A c \in Clients :
            (cli[c].pc = "get" /\ cli'[c] /= cli[c] /\ cli'[c].err \in PlainErrors) =>
                /\ cli'[c].pc = "done"
                /\ cli'[c].attempts = cli[c].attempts + 1
                /\ doc' = doc]_vars

\* C33 witness: the first attempt ended in a conflict and was retried; the
\* second attempt found the entry in the document it read and the call
\* ended with the duplicate-entry error, nothing written.
C33_Witness ==
    \E c \in Clients :
        /\ cli[c].pc = "done" /\ cli[c].err = "duplicate"
        /\ cli[c].attempts = 2 /\ cli[c].conflicts = 1
        /\ ~cli[c].wrote

\* The identifying key of an entry: its pattern for a pattern entry, its
\* exact ARN otherwise.
KeyOfEntry(kind, m) ==
    IF kind = "role"
    THEN IF m.RoleARNLike /= Empty THEN <<"like", m.RoleARNLike>> ELSE <<"arn", m.RoleARN>>
    ELSE IF m.UserARNLike /= Empty THEN <<"like", m.UserARNLike>> ELSE <<"arn", m.UserARN>>

\* How many records of the list of this kind in the document have the key.
KeyCount(data, kind, key) ==
    LET recs == IF kind = "role" THEN data.mapRoles.recs ELSE data.mapUsers.recs
    IN  Cardinality({j \in 1..Len(recs) : KeyOfEntry(kind, recs[j]) = key})

\* C34: when two clients have run AddRole (or AddUser) with the same
\* identifying key at the same time, at most one of the two calls has
\* succeeded, the other has then ended with the duplicate-entry or the
\* conflict error, and the document holds the key at most once.
C34_SameKeyOneWinner ==
    \A c, d \in Clients :
        (/\ c /= d
         /\ cli[c].pc = "done" /\ cli[d].pc = "done"
         /\ cli[c].kind = cli[d].kind
         /\ KeyOfEntry(cli[c].kind, cli[c].m) = KeyOfEntry(cli[d].kind, cli[d].m))
            => /\ ~(Succeeded(c) /\ Succeeded(d))
               /\ Succeeded(c) => cli[d].err \in {"duplicate", "conflict"}
               /\ doc.present =>
                     KeyCount(doc.data, cli[c].kind, KeyOfEntry(cli[c].kind, cli[c].m)) <= 1

\* The watcher w is inside saveMap.
InSaveMap(w) ==
    wpc[w] \in {"lock", "lockWait", "clear", "users", "userArnLikes", "roles",
                "roleArnLikes", "accounts"}

\* C35: once stopCh is closed, the store is changed at most by the event
\* that was being processed at that moment: a step that changes the tables
\* is never a step of saveMap for an event that was put on the stream after
\* stopCh was closed.
C35_NoLateEventApplied ==
    [][ms' /= ms =>
          \E w \in Watchers :
              InSaveMap(w) /\ wpc'[w] /= wpc[w] /\ ~afterStop[w].late]_vars

\* The exact and the pattern entries of a list of the configuration, in the
\* order of the list.
ExactRolesOf(list) == SelectSeq(list, LAMBDA m : m.RoleARNLike = Empty)
LikeRolesOf(list) == SelectSeq(list, LAMBDA m : m.RoleARNLike /= Empty)
ExactUsersOf(list) == SelectSeq(list, LAMBDA m : m.UserARNLike = Empty)
LikeUsersOf(list) == SelectSeq(list, LAMBDA m : m.UserARNLike /= Empty)

\* Every entry of the configuration is valid taken by itself.
NoFault ==
    /\ \A m \in Range(cfg.RoleMappings) : RoleFault(m) = "nil"
    /\ \A m \in Range(cfg.UserMappings) : UserFault(m) = "nil"

\* C36: entries with the same key do not make loading fail and are not
\* both kept.  Loaded from a configuration whose entries are valid one by
\* one, the static mapper is built, and each table of the static mapper and
\* of the live store has one entry per key, which is the last entry of the
\* list with that key: the lower-cased ARN for exact entries, the pattern
\* for pattern entries.
C36_LastDuplicateWins ==
    (fpc /= "new" /\ NoFault) =>
        /\ fpc = "ready"
        /\ fm.lowercaseRoleMap = TableBy(ExactRolesOf(cfg.RoleMappings), RoleKey)
        /\ fm.roleArnLikeMap = TableBy(LikeRolesOf(cfg.RoleMappings), RoleLikeKey)
        /\ fm.lowercaseUserMap = TableBy(ExactUsersOf(cfg.UserMappings), UserKey)
        /\ fm.userArnLikeMap = TableBy(LikeUsersOf(cfg.UserMappings), UserLikeKey)
        /\ ms.roles = TableBy(ExactRolesOf(cfg.RoleMappings), RoleKey)
        /\ ms.roleArnLikes = TableBy(LikeRolesOf(cfg.RoleMappings), RoleLikeKey)
        /\ ms.users = TableBy(ExactUsersOf(cfg.UserMappings), UserKey)
        /\ ms.userArnLikes = TableBy(LikeUsersOf(cfg.UserMappings), UserLikeKey)

\* C36 witness: the role list is role/A, role/a, role/A and the user list
\* has the pattern user/? twice, with different user names; both mappers are
\* loaded, each holds one entry for role/a and one for user/?, the last of
\* its list, and Map(role/a) of the static mapper returned that entry.
C36_Witness ==
    /\ fpc = "ready"
    /\ cfg.RoleMappings = <<rExactUpper, rExactLower, rExactUpper>>
    /\ cfg.UserMappings = <<uPattern, uPatternAgain>>
    /\ DOMAIN fm.lowercaseRoleMap = {RoleLower} /\ fm.lowercaseRoleMap[RoleLower] = rExactUpper
    /\ DOMAIN ms.roles = {RoleLower} /\ ms.roles[RoleLower] = rExactUpper
    /\ DOMAIN fm.userArnLikeMap = {UserOne} /\ fm.userArnLikeMap[UserOne] = uPatternAgain
    /\ DOMAIN ms.userArnLikes = {UserOne} /\ ms.userArnLikes[UserOne] = uPatternAgain
    /\ fmCall.op = "Map" /\ fmCall.arg = RoleLower
    /\ fmCall.out = Identity(RoleLower, rExactUpper)

====
